---- MODULE Spec2Model ----
(***************************************************************************)
(* Model of the NNSSA -> CoreML lowering of coremltools:                   *)
(*   converters/nnssa/coreml/ssa_converter.py  (class SSAConverter)        *)
(*   converters/nnssa/coreml/shapes.py         (shape propagation)         *)
(*                                                                         *)
(* Python lists are mutable objects.  The Shape Table (tensor_shapes) maps *)
(* an edge name to a list object, so it is modelled as a map from names to *)
(* references into `heap`; two edges may share one list object.            *)
(* Python `assert` statements are modelled as enabled (the default).       *)
(*                                                                         *)
(* Four entry points are modelled: SSAConverter.convert() on a freshly     *)
(* built converter (Spec), shapes.propagate_shapes() on a network with its *)
(* input shapes (Spec), direct calls of shapes.get_common_shape()          *)
(* (SpecPure), and direct calls of is_a_shape_of and of the shape rules of *)
(* _LAYER_REGISTRY (SpecRules).                                            *)
(***************************************************************************)
EXTENDS Integers, Sequences, FiniteSets, TLC

VARIABLES
    ensemble,          \* net_ensemble: the SSA functions being converted (read only)
    status,            \* "constructing" | "init_error": SSAConverter.__init__;
                       \* "running" | "done" | "error": where the convert() call is;
                       \* "shaping" | "shaped" | "shape_error": _propagate_shapes()
    err,               \* kind of the exception that ended convert(), "" if none
    frames,            \* Python call stack of convert() / _convert_while() activations
    func_stack,        \* SSAConverter.func_stack
    func_builder_map,  \* SSAConverter.func_builder_map: function name -> network id
    op_tensor_map,     \* SSAConverter.op_tensor_map: the tuple bindings
    tensor_shapes,     \* SSAConverter.tensor_shapes: edge name -> reference into heap
    heap,              \* the list objects that hold shapes
    nets,              \* the emitted networks: network id -> sequence of layers
    done_loops,        \* one record per _convert_while call that returned normally
    last_call,         \* record of the most recent _get_input_tensors call
    unify_log,         \* one record per write to an edge that has a recorded shape
    blob_names,        \* the blob_names list of propagate_shapes()
    shaper_in,         \* propagate_shapes(mlmodel_spec, overwrite) as it was called
    description_output,\* mlmodel_spec.description.output: names and shapes
    pin,               \* the shapes a direct caller of shapes.py starts with
    px, py,            \* the caller's two list objects, as they are now
    pres,              \* the calls made so far: arguments and result
    rcall,             \* a direct call of a shape rule: function, layer, input shapes
    rres               \* <<>> before the call, <<its result>> after it

vars == <<ensemble, status, err, frames, func_stack, func_builder_map,
          op_tensor_map, tensor_shapes, heap, nets, done_loops, last_call,
          unify_log, blob_names, shaper_in, description_output,
          pin, px, py, pres, rcall, rres>>

convVars == <<ensemble, status, err, frames, func_stack, func_builder_map,
              op_tensor_map, tensor_shapes, heap, nets, done_loops, last_call,
              unify_log, blob_names, shaper_in, description_output>>

pureVars == <<pin, px, py, pres, rcall, rres>>

----------------------------------------------------------------------------
(* Bounds of the model *)

\* deepest stack of Python activations before the interpreter raises RecursionError
MaxFrames == 5
\* largest rank of a shape handed directly to a shapes.py function
MaxRank == 2
\* number of consecutive direct calls of a shapes.py function
MaxCalls == 2
\* largest number of layers of a network handed to _propagate_shapes
MaxLayers == 3

\* dimension values handed directly to a shapes.py function (-1 is "unknown")
DimValues == {-1, 1, 2, 3}

----------------------------------------------------------------------------
(* Sequence helpers *)

Last(s) == s[Len(s)]

Front(s) == SubSeq(s, 1, Len(s) - 1)

Range(s) == {s[i] : i \in DOMAIN s}

\* the element of a one-element set.  The operators below bind an
\* intermediate result v as Only({e(v) : v \in {...}}) where a LET would
\* name it: a bound variable holds a value that is computed once
Only(S) == CHOOSE v \in S : TRUE

RECURSIVE Flatten(_)
Flatten(ss) == IF ss = <<>> THEN <<>> ELSE Head(ss) \o Flatten(Tail(ss))

\* the 1-based position that Python's s[i] reads in a list of length n
\* (negative i counts from the end); outside 1..n the access raises IndexError
PyIndex(i, n) == IF i < 0 THEN n + i + 1 ELSE i + 1

RECURSIVE SumLens(_, _)
SumLens(ss, k) == IF k = 0 THEN 0 ELSE Len(ss[k]) + SumLens(ss, k - 1)

----------------------------------------------------------------------------
(* shapes.py: shape unification and the per-layer shape rules *)

\* get_common_shape with z[idx] = y[idx] where the dimensions disagree
get_common_shape_keep_y(x, y) ==
    IF Len(x) = Len(y)
    THEN [none |-> FALSE,
          z |-> [idx \in 1..Len(x) |-> IF x[idx] = y[idx] THEN x[idx] ELSE y[idx]]]
    ELSE [none |-> TRUE, z |-> <<>>]

\* get_common_shape(x, y).  `none` models the None result; when the ranks
\* agree the result z IS the list x (z = x), updated element by element, so
\* the caller's x holds z afterwards.
get_common_shape(x, y) ==
    IF Len(x) = Len(y)
    THEN [none |-> FALSE,
          z |-> [idx \in 1..Len(x) |-> IF x[idx] = y[idx] THEN x[idx] ELSE -1]]
    ELSE [none |-> TRUE, z |-> <<>>]

\* an optional shape: None, or a list
None == [none |-> TRUE, z |-> <<>>]

Some(shape) == [none |-> FALSE, z |-> shape]

\* is_static_shape that takes a dimension of 0 for static
is_static_shape_nonneg(shape) == ~ (FALSE \in {shape[i] >= 0 : i \in DOMAIN shape})

\* is_static_shape(shape): not (False in [x > 0 for x in shape])
is_static_shape(shape) == ~ (FALSE \in {shape[i] > 0 : i \in DOMAIN shape})

\* is_a_shape_of with the wildcard honoured on both sides
is_a_shape_of_either(x, y) ==
    IF y.none THEN TRUE
    ELSE IF Len(x) # Len(y.z) THEN FALSE
    ELSE \A a \in DOMAIN x : x[a] = y.z[a] \/ y.z[a] = -1 \/ x[a] = -1

\* is_a_shape_of(x, y) on a list x and an optional shape y; zip stops at the
\* shorter list, and the lists are of equal length where it is reached
is_a_shape_of(x, y) ==
    IF y.none THEN TRUE
    ELSE IF Len(x) # Len(y.z) THEN FALSE
    ELSE \A a \in DOMAIN x : x[a] = y.z[a] \/ y.z[a] = -1

\* the result of a shape rule: ok, an error kind, the heap with the freshly
\* built lists appended, and the references of the returned output shapes
RuleOk(hp, out) == [ok |-> TRUE, err |-> "", heap |-> hp, out |-> out]

RuleErr(hp, e) == [ok |-> FALSE, err |-> e, heap |-> hp, out |-> <<>>]

\* x / y of Python 3: an integer when y divides x, a non-integral value
\* <<x, y>> otherwise
true_div(x, y) == IF x % y = 0 THEN x \div y ELSE <<x, y>>

\* int(d) of list(map(int, shape)): truncation towards zero
to_int(d) ==
    IF d \in Int THEN d
    ELSE IF d[1] >= 0 THEN d[1] \div d[2] ELSE 0 - ((0 - d[1]) \div d[2])

\* _load_constant_nd: list(layer_spec.loadConstantND.shape)
load_constant_nd(layer, ins, hp) ==
    RuleOk(Append(hp, layer.shape), <<Len(hp) + 1>>)

\* _identity and _copy: input_shapes[:] is a new outer list holding the very
\* same shape objects
identity(layer, ins, hp) == RuleOk(hp, ins)

\* _less_than and _logical_and: [[1]]
less_than(layer, ins, hp) == RuleOk(Append(hp, <<1>>), <<Len(hp) + 1>>)

\* _reshape_static: list(layer_spec.reshapeStatic.targetShape)
reshape_static(layer, ins, hp) ==
    RuleOk(Append(hp, layer.shape), <<Len(hp) + 1>>)

\* the None that broadcast_dim returns for an irreconcilable pair; no
\* dimension value is -2 (negative operands give -1 before)
NoDim == 0 - 2

\* broadcast_dim that lets a 1 win over the other dimension
broadcast_dim_min(x, y) ==
    IF x < 0 \/ y < 0 THEN -1
    ELSE IF x = 1 \/ y = 1 THEN 1
    ELSE IF x = y THEN x
    ELSE NoDim

broadcast_dim(x, y) ==
    IF x < 0 \/ y < 0 THEN -1
    ELSE IF x = 1 \/ y = 1 THEN (IF x > y THEN x ELSE y)
    ELSE IF x = y THEN x
    ELSE NoDim

MaxOf(S) == CHOOSE m \in S : \A n \in S : n <= m

LeftPad(s, r) == [i \in 1..(r - Len(s)) |-> 1] \o s

\* the inner loop of _add_broadcastable for one dimension: fold broadcast_dim
\* over the extended input shapes; NoDim (None) once a pair is irreconcilable
RECURSIVE BroadcastFold(_, _, _, _)
BroadcastFold(acc, ext, i_dim, k) ==
    IF k > Len(ext) THEN acc
    ELSE LET d == broadcast_dim(acc, ext[k][i_dim])
         IN IF d = NoDim THEN NoDim ELSE BroadcastFold(d, ext, i_dim, k + 1)

\* _add_broadcastable
add_broadcastable(layer, ins, hp) ==
    LET input_shapes == [k \in DOMAIN ins |-> hp[ins[k]]]
        max_rank == MaxOf({Len(input_shapes[k]) : k \in DOMAIN input_shapes})
        ext == [k \in DOMAIN ins |-> LeftPad(input_shapes[k], max_rank)]
        output_shape == [i \in 1..max_rank |-> BroadcastFold(1, ext, i, 1)]
    IN IF \E i \in 1..max_rank : output_shape[i] = NoDim
       THEN RuleErr(hp, "ValueError: cannot broadcast")
       ELSE RuleOk(Append(hp, output_shape), <<Len(hp) + 1>>)

\* _split_nd: one new list, returned num_splits times ([output_shape] * n);
\* the quotient is 0 exactly when the dimension is 0
split_nd(layer, ins, hp) ==
    IF Len(ins) # 1 THEN RuleErr(hp, "NotImplementedError: dynamic split")
    ELSE LET input_shape == hp[ins[1]]
             axis == PyIndex(layer.axis, Len(input_shape))
         IN IF axis \notin DOMAIN input_shape
            THEN RuleErr(hp, "IndexError")
            ELSE LET q == true_div(input_shape[axis], layer.num)
                     output_shape == [input_shape EXCEPT ![axis] = q]
                 IN IF input_shape[axis] = 0
                    THEN RuleErr(hp, "ValueError: cannot split")
                    ELSE RuleOk(Append(hp, output_shape),
                                [k \in 1..layer.num |-> Len(hp) + 1])

\* the number of elements of s[:i] for a list of length n
PySlice(i, n) ==
    IF i < 0 THEN (IF n + i < 0 THEN 0 ELSE n + i)
    ELSE IF i > n THEN n ELSE i

\* the loop of _squeeze over the axes, from the k-th on: every axis is
\* tested against the input shape, and output_shape[:idx] +
\* output_shape[idx + 1:] is taken of the output built so far, at the same
\* index
RECURSIVE SqueezeFold(_, _, _, _)
SqueezeFold(input_shape, output_shape, axes, k) ==
    IF k > Len(axes) THEN [ok |-> TRUE, err |-> "", shape |-> output_shape]
    ELSE LET axis == axes[k]
             idx == IF axis >= 0 THEN axis ELSE Len(input_shape) + axis
             n == Len(output_shape)
         IN IF PyIndex(idx, Len(input_shape)) \notin DOMAIN input_shape
            THEN [ok |-> FALSE, err |-> "IndexError", shape |-> <<>>]
            ELSE IF input_shape[PyIndex(idx, Len(input_shape))] # 1
            THEN [ok |-> FALSE, err |-> "ValueError: cannot squeeze", shape |-> <<>>]
            ELSE SqueezeFold(input_shape,
                             SubSeq(output_shape, 1, PySlice(idx, n))
                                 \o SubSeq(output_shape, PySlice(idx + 1, n) + 1, n),
                             axes, k + 1)

\* _squeeze
squeeze(layer, ins, hp) ==
    IF ins = <<>> THEN RuleErr(hp, "IndexError")
    ELSE IF layer.axes = <<>>
    THEN RuleErr(hp, "NotImplementedError: unspecified axes")
    ELSE LET r == SqueezeFold(hp[ins[1]], hp[ins[1]], layer.axes, 1)
         IN IF r.ok THEN RuleOk(Append(hp, r.shape), <<Len(hp) + 1>>)
            ELSE RuleErr(hp, r.err)

\* the loops of _concat_nd over input_shapes[1:] and over each shape's
\* dimensions, from shape s, dimension idx (both 1-based) on
RECURSIVE ConcatFold(_, _, _, _, _)
ConcatFold(output_shape, shapes, s, idx, axis) ==
    IF s > Len(shapes) THEN [ok |-> TRUE, err |-> "", shape |-> output_shape]
    ELSE IF idx > Len(shapes[s]) THEN ConcatFold(output_shape, shapes, s + 1, 1, axis)
    ELSE IF idx > Len(output_shape)
    THEN [ok |-> FALSE, err |-> "IndexError", shape |-> output_shape]
    ELSE IF output_shape[idx] = -1
    THEN ConcatFold(output_shape, shapes, s, idx + 1, axis)
    ELSE IF idx = axis + 1
    THEN ConcatFold([output_shape EXCEPT ![idx] = @ + shapes[s][idx]],
                    shapes, s, idx + 1, axis)
    ELSE IF output_shape[idx] # shapes[s][idx]
    THEN [ok |-> FALSE, err |-> "ValueError: unable to shape concatND",
          shape |-> output_shape]
    ELSE ConcatFold(output_shape, shapes, s, idx + 1, axis)

\* _concat_nd
concat_nd(layer, ins, hp) ==
    LET input_shapes == [j \in DOMAIN ins |-> hp[ins[j]]]
        rank == Len(input_shapes[1])
        axis == IF layer.axis < 0 THEN layer.axis + rank ELSE layer.axis
        r == ConcatFold(input_shapes[1], input_shapes, 2, 1, axis)
    IN IF ins = <<>> THEN RuleErr(hp, "IndexError")
       ELSE IF r.ok THEN RuleOk(Append(hp, r.shape), <<Len(hp) + 1>>)
       ELSE RuleErr(hp, r.err)

\* _fill_dynamic: [[-1] * rank]
fill_dynamic(layer, ins, hp) ==
    IF ~ (Len(ins) = 1 /\ Len(hp[ins[1]]) = 1) THEN RuleErr(hp, "AssertionError")
    ELSE LET rank == to_int(hp[ins[1]][1])
         IN RuleOk(Append(hp, [d \in 1..rank |-> -1]), <<Len(hp) + 1>>)

\* _add (the rule of 'add', 'multiply', 'bias', 'max' and 'min'): with two
\* inputs one new list per input, the input left-padded with 1 to the larger
\* rank; with one input the input shapes themselves
add(layer, ins, hp) ==
    IF Len(ins) = 2
    THEN LET r == MaxOf({Len(hp[ins[1]]), Len(hp[ins[2]])})
         IN RuleOk(hp \o <<LeftPad(hp[ins[1]], r), LeftPad(hp[ins[2]], r)>>,
                   <<Len(hp) + 1, Len(hp) + 2>>)
    ELSE IF Len(ins) = 1 THEN RuleOk(hp, ins)
    ELSE RuleErr(hp, "ValueError: expects 1 or 2 inputs")

\* the loops `for axis in axes: output_shape[axis] = v` of _reduce_general,
\* from the k-th axis on; <<>> in place of the shape models the IndexError
RECURSIVE ReduceFold(_, _, _, _)
ReduceFold(output_shape, axes, k, v) ==
    IF k > Len(axes) THEN [ok |-> TRUE, shape |-> output_shape]
    ELSE IF PyIndex(axes[k], Len(output_shape)) \notin DOMAIN output_shape
    THEN [ok |-> FALSE, shape |-> <<>>]
    ELSE ReduceFold([output_shape EXCEPT ![PyIndex(axes[k], Len(output_shape))] = v],
                    axes, k + 1, v)

\* _reduce_general that removes the reduced axes whatever keepDims is
reduce_general_remove(layer, ins, hp) ==
    IF layer.reduceAll THEN RuleOk(Append(hp, <<1>>), <<Len(hp) + 1>>)
    ELSE IF ins = <<>> THEN RuleErr(hp, "IndexError")
    ELSE LET f == ReduceFold(hp[ins[1]], layer.axes, 1, NoDim)
         IN IF ~f.ok THEN RuleErr(hp, "IndexError")
            ELSE RuleOk(Append(hp, SelectSeq(f.shape, LAMBDA dim : dim # NoDim)),
                        <<Len(hp) + 1>>)

\* _reduce_general(params, input_shapes), behind _reduce_sum and _reduce_mean;
\* NoDim stands for the None that marks a removed dimension
reduce_general(layer, ins, hp) ==
    IF layer.reduceAll THEN RuleOk(Append(hp, <<1>>), <<Len(hp) + 1>>)
    ELSE IF ins = <<>> THEN RuleErr(hp, "IndexError")
    ELSE LET f == ReduceFold(hp[ins[1]], layer.axes, 1,
                             IF layer.keepDims THEN 1 ELSE NoDim)
         IN IF ~f.ok THEN RuleErr(hp, "IndexError")
            ELSE RuleOk(Append(hp, SelectSeq(f.shape, LAMBDA dim : dim # NoDim)),
                        <<Len(hp) + 1>>)

\* the loop of _expand_dims over the axes, from the k-th on: a 1 is put
\* where output_shape[0:axis] ends
RECURSIVE ExpandFold(_, _, _)
ExpandFold(output_shape, axes, k) ==
    IF k > Len(axes) THEN output_shape
    ELSE LET cut == PySlice(axes[k], Len(output_shape))
         IN ExpandFold(SubSeq(output_shape, 1, cut) \o <<1>>
                           \o SubSeq(output_shape, cut + 1, Len(output_shape)),
                       axes, k + 1)

\* _expand_dims: an axis that is not > 0 has rank + 1 added to it
expand_dims(layer, ins, hp) ==
    IF ins = <<>> THEN RuleErr(hp, "IndexError")
    ELSE LET input_shape == hp[ins[1]]
             rank == Len(input_shape)
             axes == [k \in DOMAIN layer.axes |->
                         IF layer.axes[k] > 0 THEN layer.axes[k]
                         ELSE layer.axes[k] + rank + 1]
         IN RuleOk(Append(hp, ExpandFold(input_shape, axes, 1)), <<Len(hp) + 1>>)

\* _stack_nd that puts the new dimension last
stack_nd_last(layer, ins, hp) ==
    IF ins = <<>> THEN RuleErr(hp, "IndexError")
    ELSE LET shape == hp[ins[1]]
         IN IF \E k \in DOMAIN ins : hp[ins[k]] # shape
            THEN RuleErr(hp, "ValueError: stack input shapes mismatch")
            ELSE RuleOk(Append(hp, shape \o <<Len(layer.input)>>), <<Len(hp) + 1>>)

\* _stack_nd
stack_nd(layer, ins, hp) ==
    IF ins = <<>> THEN RuleErr(hp, "IndexError")
    ELSE LET shape == hp[ins[1]]
             cut == PySlice(layer.axis, Len(shape))
         IN IF \E k \in DOMAIN ins : hp[ins[k]] # shape
            THEN RuleErr(hp, "ValueError: stack input shapes mismatch")
            ELSE RuleOk(Append(hp, SubSeq(shape, 1, cut) \o <<Len(layer.input)>>
                                       \o SubSeq(shape, cut + 1, Len(shape))),
                        <<Len(hp) + 1>>)

\* _batched_mat_mul
batched_mat_mul(layer, ins, hp) ==
    IF Len(ins) = 1
    THEN IF hp[ins[1]] = <<>> THEN RuleErr(hp, "IndexError")
         ELSE RuleOk(Append(hp, [hp[ins[1]] EXCEPT ![Len(hp[ins[1]])] =
                                    layer.weightMatrixSecondDimension]),
                     <<Len(hp) + 1>>)
    ELSE IF Len(ins) = 2
    THEN LET a_shape == hp[ins[1]]
             b_shape == hp[ins[2]]
             r_x == a_shape[Len(a_shape) - 1]
             c_x == a_shape[Len(a_shape)]
             r_y == b_shape[Len(b_shape) - 1]
             c_y == b_shape[Len(b_shape)]
             r_o == IF layer.transposeA THEN c_x ELSE r_x
             c_o == IF layer.transposeB THEN r_y ELSE c_y
         IN IF Len(a_shape) < 2 \/ Len(b_shape) < 2
            THEN RuleErr(hp, "ValueError: ranks of both inputs to be no less than 2")
            ELSE IF SubSeq(a_shape, 1, Len(a_shape) - 2)
                        # SubSeq(b_shape, 1, Len(b_shape) - 2)
            THEN RuleErr(hp, "ValueError: batch dimensions mismatch")
            ELSE RuleOk(Append(hp, SubSeq(a_shape, 1, Len(a_shape) - 2)
                                       \o <<r_o, c_o>>),
                        <<Len(hp) + 1>>)
    ELSE RuleErr(hp, "NotImplementedError: requires either 1 or 2 inputs")

\* _inner_product
inner_product(layer, ins, hp) ==
    IF Len(ins) = 1
    THEN LET input_shape == hp[ins[1]]
         IN IF input_shape = <<>> THEN RuleErr(hp, "IndexError")
            ELSE IF Last(input_shape) # layer.inputChannels
            THEN RuleErr(hp, "ValueError: input channels mismatch")
            ELSE RuleOk(Append(hp, Front(input_shape) \o <<layer.outputChannels>>),
                        <<Len(hp) + 1>>)
    ELSE IF Len(ins) = 2
    THEN LET input_shape == hp[ins[1]]
             mat_shape == hp[ins[2]]
         IN IF input_shape = <<>> THEN RuleErr(hp, "IndexError")
            ELSE IF Last(input_shape) # -1 /\ Len(mat_shape) < 2
            THEN RuleErr(hp, "IndexError")
            ELSE IF Last(input_shape) # -1
                    /\ Last(input_shape) # mat_shape[Len(mat_shape) - 1]
            THEN RuleErr(hp, "ValueError: input channels mismatch")
            ELSE IF mat_shape = <<>> THEN RuleErr(hp, "IndexError")
            ELSE RuleOk(Append(hp, Front(input_shape) \o <<Last(mat_shape)>>),
                        <<Len(hp) + 1>>)
    ELSE RuleErr(hp, "ValueError: needs either 1 or 2 inputs")

\* the keys of _LAYER_REGISTRY
LAYER_REGISTRY ==
    {"transpose", "getShape", "fillDynamic", "sliceStatic", "squeeze",
     "rangeStatic", "rangeDynamic", "loadConstant", "loadConstantND", "gather",
     "scatter", "lessThan", "notEqual", "logicalAnd", "add", "multiply",
     "concatND", "innerProduct", "activation", "reverse", "copy", "expandDims",
     "stackND", "addBroadcastable", "subtractBroadcastable", "conv2d",
     "multiplyBroadcastable", "reshapeStatic", "embeddingND", "softmax",
     "softmaxND", "unary", "bias", "max", "min", "reduce", "argMax",
     "reduceMean", "reduceSum", "splitND", "batchedMatmul"}

\* _get_translator_function(layer_type)(layer, input_shapes), for the layer
\* kinds whose rules are modelled
Translate(layer, ins, hp) ==
    CASE layer.type = "loadConstantND"   -> load_constant_nd(layer, ins, hp)
      [] layer.type = "activation"       -> identity(layer, ins, hp)
      [] layer.type = "copy"             -> identity(layer, ins, hp)
      [] layer.type = "lessThan"         -> less_than(layer, ins, hp)
      [] layer.type = "addBroadcastable" -> add_broadcastable(layer, ins, hp)
      [] layer.type = "splitND"          -> split_nd(layer, ins, hp)
      [] layer.type = "squeeze"          -> squeeze(layer, ins, hp)
      [] layer.type = "reshapeStatic"    -> reshape_static(layer, ins, hp)
      [] layer.type = "concatND"         -> concat_nd(layer, ins, hp)
      [] layer.type = "fillDynamic"      -> fill_dynamic(layer, ins, hp)
      [] layer.type \in {"subtractBroadcastable", "multiplyBroadcastable"}
                                         -> add_broadcastable(layer, ins, hp)
      [] layer.type \in {"add", "multiply", "bias", "max", "min"}
                                         -> add(layer, ins, hp)
      [] layer.type \in {"reduceSum", "reduceMean"}
                                         -> reduce_general(layer, ins, hp)
      [] layer.type = "stackND"          -> stack_nd(layer, ins, hp)
      [] layer.type = "expandDims"       -> expand_dims(layer, ins, hp)
      [] layer.type = "batchedMatmul"    -> batched_mat_mul(layer, ins, hp)
      [] layer.type = "innerProduct"     -> inner_product(layer, ins, hp)

----------------------------------------------------------------------------
(* Emitted layers (Target Operators) and shapes.propagate_single_layer *)

\* a layer as the NeuralNetworkBuilder add_* methods create it; the fields
\* after `output` are the parameters that shape rules and loops read
Layer(type, name, input, output) ==
    [type |-> type, name |-> name, input |-> input, output |-> output,
     inputTensor |-> <<>>, outputTensor |-> <<>>,
     shape |-> <<>>, axis |-> 0, num |-> 0, axes |-> <<>>,
     keepDims |-> FALSE, reduceAll |-> FALSE,
     transposeA |-> FALSE, transposeB |-> FALSE,
     inputChannels |-> 0, outputChannels |-> 0,
     weightMatrixSecondDimension |-> 0,
     conditionNetwork |-> 0, bodyNetwork |-> 0, conditionVar |-> "",
     ifBranch |-> 0, elseBranch |-> 0]

\* "Register output blobs": lines 628-636 of propagate_single_layer; log
\* collects, for every write to an edge that has a Shape Table entry, the
\* edge, the recorded shape before, the shape produced, and the recorded
\* shape after (op "unify": through get_common_shape)
RECURSIVE RegisterOutputs(_, _, _, _, _, _)
RegisterOutputs(output, output_shapes, k, ts0, hp0, log0) ==
    Only({
      IF k > Len(output)
      THEN [ok |-> TRUE, err |-> "", ts |-> a.ts, heap |-> a.hp, log |-> a.log]
      ELSE IF k > Len(output_shapes)
      THEN [ok |-> FALSE, err |-> "IndexError", ts |-> a.ts, heap |-> a.hp,
            log |-> a.log]
      ELSE IF output[k] \notin DOMAIN a.ts
      THEN RegisterOutputs(output, output_shapes, k + 1,
                           a.ts @@ (output[k] :> output_shapes[k]), a.hp, a.log)
      ELSE Only({
             LET blob_name == output[k]
                 hp1 == IF common_shape.none THEN a.hp
                        ELSE [a.hp EXCEPT ![a.ts[blob_name]] = common_shape.z]
                 log1 == Append(a.log, [op |-> "unify", blob |-> blob_name,
                                        old |-> a.hp[a.ts[blob_name]],
                                        new |-> a.hp[output_shapes[k]],
                                        none |-> common_shape.none,
                                        after |-> hp1[a.ts[blob_name]]])
             IN IF common_shape.none
                THEN [ok |-> FALSE, err |-> "ValueError: unable to resolve shape",
                      ts |-> a.ts, heap |-> hp1, log |-> log1]
                ELSE RegisterOutputs(output, output_shapes, k + 1, a.ts, hp1, log1)
             : common_shape \in {get_common_shape(a.hp[a.ts[output[k]]],
                                                  a.hp[output_shapes[k]])}})
      : a \in {[ts |-> ts0, hp |-> hp0, log |-> log0]}})

\* "Write into layer spec": lines 638-651
Annotate(layer, ts, hp) ==
    [layer EXCEPT
        !.inputTensor = [j \in DOMAIN layer.input |->
                            [d \in DOMAIN hp[ts[layer.input[j]]] |->
                                to_int(hp[ts[layer.input[j]]][d])]],
        !.outputTensor = [j \in DOMAIN layer.output |->
                            [d \in DOMAIN hp[ts[layer.output[j]]] |->
                                to_int(hp[ts[layer.output[j]]][d])]]]

\* propagate_single_layer(layer, shapes) with output_shapes=None
propagate_single_layer(layer, ts, hp, log) ==
    IF \E j \in DOMAIN layer.input : layer.input[j] \notin DOMAIN ts
    THEN [ok |-> FALSE, err |-> "ValueError: shape of input cannot be determined",
          ts |-> ts, heap |-> hp, log |-> log, layer |-> layer]
    ELSE IF layer.type \notin LAYER_REGISTRY
    THEN [ok |-> FALSE, err |-> "NotImplementedError: layer type not supported",
          ts |-> ts, heap |-> hp, log |-> log, layer |-> layer]
    ELSE Only({
           IF ~r.ok
           THEN [ok |-> FALSE, err |-> r.err, ts |-> ts, heap |-> hp, log |-> log,
                 layer |-> layer]
           ELSE Only({
                  IF ~reg.ok
                  THEN [ok |-> FALSE, err |-> reg.err, ts |-> reg.ts,
                        heap |-> reg.heap, log |-> reg.log, layer |-> layer]
                  ELSE [ok |-> TRUE, err |-> "", ts |-> reg.ts, heap |-> reg.heap,
                        log |-> reg.log,
                        layer |-> Annotate(layer, reg.ts, reg.heap)]
                  : reg \in {RegisterOutputs(layer.output, r.out, 1, ts, r.heap, log)}})
           : r \in {Translate(layer, [j \in DOMAIN layer.input |-> ts[layer.input[j]]],
                              hp)}})

\* the converter state a lowering routine works on: the networks, the Shape
\* Table and whether an exception has been raised
CS(n, ts, hp, log) ==
    [ok |-> TRUE, err |-> "", nets |-> n, ts |-> ts, heap |-> hp, log |-> log]

\* builder.add_xxx(...) followed by shapes.propagate_single_layer(layer,
\* self.tensor_shapes): the layer is in the network before its shapes are
\* propagated; nothing happens once an exception is on its way
EmitLayer(cs, builder, layer) ==
    Only({
      IF ~c.ok THEN c
      ELSE Only({
             [ok |-> p.ok, err |-> p.err,
              nets |-> [c.nets EXCEPT ![builder] = Append(@, p.layer)],
              ts |-> p.ts, heap |-> p.heap, log |-> p.log]
             : p \in {propagate_single_layer(l, c.ts, c.heap, c.log)}})
      : c \in {cs}, l \in {layer}})

----------------------------------------------------------------------------
(* shapes._propagate_shapes: one pass over the layers of a network *)

\* "Register input blobs" (lines 447-457), from input j on: "" when every
\* input has been seen and has a shape, the error raised otherwise
RECURSIVE CheckInputs(_, _, _, _)
CheckInputs(layer, j, names, ts) ==
    IF j > Len(layer.input) THEN ""
    ELSE IF layer.input[j] \notin Range(names)
    THEN "ValueError: input has never been seen before"
    ELSE IF layer.input[j] \notin DOMAIN ts
    THEN "ValueError: shape of input cannot be determined"
    ELSE CheckInputs(layer, j + 1, names, ts)

\* "Register output blobs" (lines 476-489), from output k on; st holds
\* blob_names, the shapes and the log of writes to recorded edges
RECURSIVE RegisterOutputBlobs(_, _, _, _)
RegisterOutputBlobs(output, output_shapes, k, st0) ==
    Only({
      IF k > Len(output) THEN st
      ELSE Only({
             IF k > Len(output_shapes)
             THEN [a EXCEPT !.ok = FALSE, !.err = "IndexError"]
             ELSE IF output[k] \notin DOMAIN a.ts
             THEN RegisterOutputBlobs(output, output_shapes, k + 1,
                      [a EXCEPT !.ts = @ @@ (output[k] :> output_shapes[k])])
             ELSE Only({
                    LET blob_name == output[k]
                        hp1 == IF common_shape.none THEN a.heap
                               ELSE [a.heap EXCEPT ![a.ts[blob_name]] = common_shape.z]
                        log1 == Append(a.log, [op |-> "unify", blob |-> blob_name,
                                               old |-> a.heap[a.ts[blob_name]],
                                               new |-> a.heap[output_shapes[k]],
                                               none |-> common_shape.none,
                                               after |-> hp1[a.ts[blob_name]]])
                    IN IF common_shape.none
                       THEN [a EXCEPT !.ok = FALSE,
                                      !.err = "ValueError: unable to resolve shape",
                                      !.log = log1]
                       ELSE RegisterOutputBlobs(output, output_shapes, k + 1,
                                [a EXCEPT !.heap = hp1, !.log = log1])
                    : common_shape \in {get_common_shape(a.heap[a.ts[output[k]]],
                                                         a.heap[output_shapes[k]])}})
             : a \in {IF output[k] \in Range(st.blob_names) THEN st
                      ELSE [st EXCEPT !.blob_names = Append(@, output[k])]}})
      : st \in {st0}})

\* _propagate_shapes(nn_spec, blob_names, shapes, ...) from layer i on.  The
\* kind of a layer is the name of its oneof field: 'loop' for a loop layer,
\* 'branch' for a branch layer, and neither is a key of _LAYER_REGISTRY.  A
\* 'forloop' or 'branch' layer that got past the registry test would call
\* _propagate_shapes with one argument (lines 466-470), a TypeError
RECURSIVE propagate_layers(_, _, _)
propagate_layers(layers, i, st0) ==
    Only({
      IF i > Len(layers) \/ ~st.ok THEN st
      ELSE Only({
             IF e # "" THEN [st EXCEPT !.ok = FALSE, !.err = e]
             ELSE IF layers[i].type \notin LAYER_REGISTRY
             THEN [st EXCEPT !.ok = FALSE,
                             !.err = "NotImplementedError: layer type not supported"]
             ELSE IF layers[i].type \in {"forloop", "branch"}
             THEN [st EXCEPT !.ok = FALSE, !.err = "TypeError"]
             ELSE Only({
                    IF ~r.ok THEN [st EXCEPT !.ok = FALSE, !.err = r.err]
                    ELSE propagate_layers(layers, i + 1,
                             RegisterOutputBlobs(layers[i].output, r.out, 1,
                                                 [st EXCEPT !.heap = r.heap]))
                    : r \in {Translate(layers[i],
                                       [j \in DOMAIN layers[i].input |->
                                           st.ts[layers[i].input[j]]],
                                       st.heap)}})
             : e \in {CheckInputs(layers[i], 1, st.blob_names, st.ts)}})
      : st \in {st0}})

\* "put the inputs into Shaper" (lines 569-574): one new list per input
\* feature
RegisterInputs(input) ==
    [blob_names |-> [i \in DOMAIN input |-> input[i].name],
     ts |-> [n \in {input[i].name : i \in DOMAIN input} |->
                CHOOSE i \in DOMAIN input :
                    input[i].name = n /\ \A k \in DOMAIN input : input[k].name = n => k <= i],
     heap |-> [i \in DOMAIN input |-> input[i].shape]]

\* the loops that add one tensor per name (lines 511-515, 529-533 and
\* 586-591), which stop with a KeyError at the first name without a shape
WriteTensors(names, ts, hp) ==
    LET bad == {j \in DOMAIN names : names[j] \notin DOMAIN ts}
        n == IF bad = {} THEN Len(names)
             ELSE (CHOOSE j \in bad : \A k \in bad : j <= k) - 1
    IN [err |-> IF bad = {} THEN "" ELSE "KeyError",
        t |-> [j \in 1..n |-> hp[ts[names[j]]]]]

\* "This does the check" (lines 517-525 and 535-543), from name j on: the
\* error raised, "" if none
RECURSIVE CheckTensors(_, _, _, _, _)
CheckTensors(existing, names, j, ts, hp) ==
    IF j > Len(names) THEN ""
    ELSE IF names[j] \notin DOMAIN ts THEN "KeyError"
    ELSE IF j > Len(existing) THEN "IndexError"
    ELSE IF ~ (\/ is_a_shape_of(existing[j], Some(hp[ts[names[j]]]))
               \/ is_a_shape_of(hp[ts[names[j]]], Some(existing[j])))
    THEN "ValueError: existing shape does not match new shape"
    ELSE CheckTensors(existing, names, j + 1, ts, hp)

\* the "input" and the "output" part of _finalize_spec for one layer
FinalizeTensors(existing, names, ts, hp) ==
    IF existing = <<>> THEN WriteTensors(names, ts, hp)
    ELSE [err |-> CheckTensors(existing, names, 1, ts, hp), t |-> existing]

\* _finalize_spec(nn_spec, shapes, overwrite) from layer i on.  A 'forloop'
\* or 'branch' layer would call _finalize_spec with one argument (lines
\* 546-551), a TypeError
RECURSIVE finalize_spec(_, _, _, _, _)
finalize_spec(layers, i, ts, hp, overwrite) ==
    IF i > Len(layers) THEN [err |-> "", layers |-> layers]
    ELSE Only({
           Only({
             IF fin.err # ""
             THEN [err |-> fin.err,
                   layers |-> [layers EXCEPT ![i] = [l EXCEPT !.inputTensor = fin.t]]]
             ELSE Only({
                    IF fout.err # ""
                    THEN [err |-> fout.err, layers |-> [layers EXCEPT ![i] = w]]
                    ELSE IF l.type \in {"forloop", "branch"}
                    THEN [err |-> "TypeError", layers |-> [layers EXCEPT ![i] = w]]
                    ELSE finalize_spec([layers EXCEPT ![i] = w], i + 1, ts, hp, overwrite)
                    : fout \in {FinalizeTensors(l.outputTensor, l.output, ts, hp)},
                      w \in {[l EXCEPT !.inputTensor = fin.t,
                                       !.outputTensor =
                                           FinalizeTensors(l.outputTensor, l.output,
                                                           ts, hp).t]}})
             : fin \in {FinalizeTensors(l.inputTensor, l.input, ts, hp)}})
           : l \in {IF overwrite
                    THEN [layers[i] EXCEPT !.inputTensor = <<>>, !.outputTensor = <<>>]
                    ELSE layers[i]}})

\* the check of lines 593-600, from output k on; line 600 formats the
\* message with `layer`, a name propagate_shapes does not define
RECURSIVE CheckOutputs(_, _, _, _)
CheckOutputs(output, k, ts, hp) ==
    IF k > Len(output) THEN ""
    ELSE IF output[k].name \notin DOMAIN ts THEN "KeyError"
    ELSE IF ~ (\/ is_a_shape_of(output[k].shape, Some(hp[ts[output[k].name]]))
               \/ is_a_shape_of(hp[ts[output[k].name]], Some(output[k].shape)))
    THEN "NameError"
    ELSE CheckOutputs(output, k + 1, ts, hp)

\* lines 580-600 of propagate_shapes: the shapes of the model's outputs
finalize_outputs(output, ts, hp, overwrite) ==
    LET output_names == [k \in DOMAIN output |-> output[k].name]
        w == WriteTensors(output_names, ts, hp)
    IN IF overwrite \/ output = <<>>
       THEN [err |-> w.err,
             output |-> [k \in DOMAIN w.t |-> [name |-> output_names[k], shape |-> w.t[k]]]]
       ELSE [err |-> CheckOutputs(output, 1, ts, hp), output |-> output]

\* the layers a network handed to propagate_shapes is made of; "a" is the
\* network's input.  The last two carry shape annotations
ShaperLayers ==
    {[Layer("loadConstantND", "c", <<>>, <<"c">>) EXCEPT !.shape = <<2>>],
     Layer("activation", "y", <<"a">>, <<"y">>),
     Layer("addBroadcastable", "s", <<"a", "c">>, <<"s">>),
     Layer("copy", "k", <<"c">>, <<"a">>),
     [Layer("reshapeStatic", "y2", <<"a">>, <<"y">>) EXCEPT !.shape = <<3, 2>>],
     [Layer("loadConstantND", "c3", <<>>, <<"c">>) EXCEPT !.shape = <<3>>],
     Layer("reshapeDynamic", "r", <<"a">>, <<"r">>),
     Layer("activation", "z", <<"r">>, <<"z">>),
     [Layer("activation", "y3", <<"a">>, <<"y">>) EXCEPT !.inputTensor = << <<2>> >>,
                                                       !.outputTensor = << <<-1>> >>],
     [Layer("activation", "y4", <<"a">>, <<"y">>) EXCEPT !.outputTensor = << <<3>> >>],
     [Layer("loop", "wl", <<>>, <<>>) EXCEPT !.conditionNetwork = 2, !.bodyNetwork = 3,
                                           !.conditionVar = "lt"],
     [Layer("branch", "br", <<"a">>, <<>>) EXCEPT !.ifBranch = 2, !.elseBranch = 3]}

\* the nested networks of the model: the condition network of the loop layer
\* (the if-arm of the branch layer) and its body network (the else-arm)
ShaperNested ==
    <<<<Layer("lessThan", "lt", <<"a", "a">>, <<"lt">>)>>,
      <<Layer("activation", "b1", <<"a">>, <<"b1">>)>>>>

\* the name of the network's input feature
ShaperInput == "a"

\* the output features a model handed to propagate_shapes describes
ShaperOutputs ==
    {<<>>, <<[name |-> "y", shape |-> <<2>>]>>, <<[name |-> "y", shape |-> <<-1>>]>>}

\* propagate_shapes(mlmodel_spec, overwrite) has been called on a model with
\* the input feature ShaperInput of shape [2]
InitShaper ==
    /\ ensemble = <<>> /\ status = "shaping" /\ err = "" /\ frames = <<>>
    /\ func_stack = <<>> /\ func_builder_map = <<>> /\ op_tensor_map = <<>>
    /\ \E n \in 0..MaxLayers : \E layers \in [1..n -> ShaperLayers] :
                                nets = <<layers>> \o ShaperNested
    /\ description_output \in ShaperOutputs
    /\ \E overwrite \in BOOLEAN :
           shaper_in = [overwrite |-> overwrite,
                        input |-> <<[name |-> ShaperInput, shape |-> <<2>>]>>,
                        layers |-> nets[1],
                        output |-> description_output]
    /\ blob_names = <<>>
    /\ tensor_shapes = <<>>
    /\ heap = <<>>
    /\ done_loops = <<>> /\ last_call = [inputs |-> <<>>, map |-> <<>>, result |-> <<>>]
    /\ unify_log = <<>>

\* propagate_shapes(mlmodel_spec, overwrite): the inputs are registered,
\* _propagate_shapes runs over the network, then _finalize_spec, then the
\* shapes of the outputs are written or checked; the first exception ends
\* the call
PropagateShapes ==
    /\ status = "shaping"
    /\ \E reg \in {RegisterInputs(shaper_in.input)} :
       \E st \in {propagate_layers(nets[1], 1,
                      [ok |-> TRUE, err |-> "", ts |-> reg.ts, heap |-> reg.heap,
                       log |-> unify_log, blob_names |-> reg.blob_names])} :
       \E fin \in {IF st.ok
                   THEN finalize_spec(nets[1], 1, st.ts, st.heap, shaper_in.overwrite)
                   ELSE [err |-> st.err, layers |-> nets[1]]} :
       \E out \in {IF fin.err = ""
                   THEN finalize_outputs(description_output, st.ts, st.heap,
                                         shaper_in.overwrite)
                   ELSE [err |-> fin.err, output |-> description_output]} :
           /\ tensor_shapes' = st.ts
           /\ heap' = st.heap
           /\ unify_log' = st.log
           /\ blob_names' = st.blob_names
           /\ nets' = [nets EXCEPT ![1] = fin.layers]
           /\ description_output' = out.output
           /\ status' = IF out.err = "" THEN "shaped" ELSE "shape_error"
           /\ err' = out.err
    /\ UNCHANGED <<ensemble, frames, func_stack, func_builder_map, op_tensor_map,
                   done_loops, last_call, shaper_in, pureVars>>

----------------------------------------------------------------------------
(* The SSA input: nodes, functions, ensembles *)

\* an SSA node (ParsedNode): op, inputs, outputs (the consumers), whether
\* node.value is not None, the shape of its datatype and whether the datatype
\* has a get_shape at all, and the attributes the lowering routines read
\* ("" = the attribute is absent)
N(name, op, inputs) ==
    [name |-> name, op |-> op, inputs |-> inputs, outputs |-> <<>>,
     value |-> FALSE, shape |-> <<>>, has_get_shape |-> TRUE, index |-> 0,
     cond_function |-> "", body_function |-> "",
     num |-> 0, axis |-> 0, has_output_shapes |-> FALSE,
     size |-> <<>>, element_shapes |-> <<>>]

Const(name, shape) == [N(name, "Const", <<>>) EXCEPT !.value = TRUE, !.shape = shape]

Placeholder(name, shape) == [N(name, "Placeholder", <<>>) EXCEPT !.shape = shape]

GetTuple(name, src, i) == [N(name, "get_tuple", <<src>>) EXCEPT !.index = i]

\* a TensorArrayV3 node: attr['size'] (<<>>: absent or not an integer) and
\* the tparam[1:] of the element types of its datatype
TensorArray(name, src, size, element_shapes) ==
    [N(name, "TensorArrayV3", <<src>>) EXCEPT !.size = size,
                                            !.element_shapes = element_shapes]

While(name, src, c, b) ==
    [N(name, "while", <<src>>) EXCEPT !.cond_function = c, !.body_function = b]

\* a function: its graph (a dict, so with an iteration order) in which every
\* node's outputs are the nodes that take it as an input
MkFunc(ns) ==
    LET names == [i \in DOMAIN ns |-> ns[i].name]
        node(n) == ns[CHOOSE i \in DOMAIN ns : ns[i].name = n]
    IN [nodes |-> names,
        graph |-> [n \in Range(names) |->
                      [node(n) EXCEPT !.outputs =
                          SelectSeq(names, LAMBDA m : n \in Range(node(m).inputs))]]]

\* the condition function of a loop over two carried values
CondFunc(f) ==
    MkFunc(<<N(f, "function_entry", <<>>),
             GetTuple(f \o "_a", f, 0), GetTuple(f \o "_b", f, 1),
             N(f \o "_lt", "Less", <<f \o "_a", f \o "_b">>),
             N(f \o "_ret", "return", <<f \o "_lt">>)>>)

\* body functions of a loop over two carried values; `kind` selects what the
\* body computes and returns
BodyKinds == {"Add", "Const3", "Const12", "Foo", "Short", "Same", "Swap"}

BodyFunc(f, kind) ==
    LET a == f \o "_a"
        b == f \o "_b"
        s == f \o "_s"
        entry == <<N(f, "function_entry", <<>>), GetTuple(a, f, 0), GetTuple(b, f, 1)>>
        compute ==
            CASE kind \in {"Add", "Short"} -> <<N(s, "Add", <<a, b>>)>>
              [] kind = "Const3"  -> <<Const(s, <<3>>)>>
              [] kind = "Const12" -> <<Const(s, <<1, 2>>)>>
              [] kind = "Foo"     -> <<N(s, "Foo", <<a, b>>)>>
              [] OTHER            -> <<>>
        result ==
            CASE kind = "Short" -> <<s>>
              [] kind = "Same"  -> <<a, b>>
              [] kind = "Swap"  -> <<b, a>>
              [] OTHER          -> <<s, b>>
    IN MkFunc(entry \o compute \o
              <<N(f \o "_mt", "make_tuple", result),
                N(f \o "_ret", "return", <<f \o "_mt">>)>>)

\* main: a loop over (a, b), whose first result is read afterwards
LoopMain(c, b, wvalue) ==
    MkFunc(<<Placeholder("a", <<2>>), Const("b", <<2>>),
             N("mt", "make_tuple", <<"a", "b">>),
             [While("w", "mt", c, b) EXCEPT !.value = wvalue],
             GetTuple("g", "w", 0),
             N("o", "Identity", <<"g">>)>>)

\* the loop scenarios: every body kind under a well-formed loop node, and
\* loop nodes with a missing, recursive or shared function reference, and
\* loop nodes that carry a constant value
LoopParams ==
    {<<"cond", "body", FALSE, k>> : k \in BodyKinds}
    \cup {<<c, "body", FALSE, "Add">> : c \in {"", "main", "body"}}
    \cup {<<"cond", b, FALSE, "Add">> : b \in {"", "main", "cond"}}
    \cup {<<c, "body", TRUE, "Add">> : c \in {"cond", "main"}}

LoopEnsembles ==
    {[main |-> LoopMain(p[1], p[2], p[3]), cond |-> CondFunc("cond"),
      body |-> BodyFunc("body", p[4])] : p \in LoopParams}

\* main: two loops in sequence that name the same condition function
TwoLoopsEnsemble ==
    [main |-> MkFunc(<<Placeholder("a", <<2>>), Const("b", <<2>>),
                       N("mt", "make_tuple", <<"a", "b">>),
                       While("w", "mt", "cond", "body"),
                       GetTuple("g", "w", 0), Const("c", <<2>>),
                       N("mt2", "make_tuple", <<"c", "g">>),
                       While("w2", "mt2", "cond", "body2")>>),
     cond |-> CondFunc("cond"),
     body |-> BodyFunc("body", "Add"),
     body2 |-> BodyFunc("body2", "Same")]

\* a condition function that returns its first carried value as it is
CondPassFunc(f) ==
    MkFunc(<<N(f, "function_entry", <<>>),
             GetTuple(f \o "_a", f, 0),
             N(f \o "_ret", "return", <<f \o "_a">>)>>)

\* main: a loop over (a, b) whose condition is its first carried value
PassLoopEnsemble ==
    [main |-> LoopMain("cond", "body", FALSE), cond |-> CondPassFunc("cond"),
     body |-> BodyFunc("body", "Add")]

\* main: a loop over (i, b) where i is an Identity of the input a, and whose
\* body returns a constant of another shape for its first carried value
AliasLoopEnsemble ==
    [main |-> MkFunc(<<Placeholder("a", <<2>>), Const("b", <<2>>),
                       N("i", "Identity", <<"a">>),
                       N("mt", "make_tuple", <<"i", "b">>),
                       While("w", "mt", "cond", "body")>>),
     cond |-> CondFunc("cond"),
     body |-> BodyFunc("body", "Const3")]

\* straight-line top-level functions
PlainEnsembles ==
    {[main |-> MkFunc(ns)] : ns \in {
        \* Unpack read through its get_tuple consumers
        <<Const("a", <<2, 3>>),
          [N("u", "Unpack", <<"a">>) EXCEPT !.num = 2, !.axis = 0],
          GetTuple("u0", "u", 0), GetTuple("u1", "u", 1),
          N("o", "Add", <<"u0", "u1">>)>>,
        \* an even two-way Split
        <<Const("a", <<4, 3>>),
          [N("s", "Split", <<"a">>) EXCEPT !.num = 2, !.axis = 0],
          GetTuple("s1", "s", 1), N("o", "Identity", <<"s1">>)>>,
        \* Reshape to a static target, and Reshape with a dynamic target
        <<Placeholder("a", <<2, 3>>),
          [N("r", "Reshape", <<"a">>) EXCEPT !.has_output_shapes = TRUE, !.shape = <<3, 2>>],
          N("o", "Identity", <<"r">>)>>,
        <<Placeholder("a", <<2, 3>>), Const("t", <<2>>),
          N("r", "Reshape", <<"a", "t">>), N("o", "Identity", <<"r">>)>>,
        \* an operator kind without a lowering routine
        <<Placeholder("a", <<2>>), N("f", "Foo", <<"a">>), N("o", "Identity", <<"f">>)>>,
        \* a dependency cycle x <-> y
        <<Placeholder("a", <<2>>), N("x", "Add", <<"a", "y">>), N("y", "Identity", <<"x">>)>>,
        \* a cycle x <-> y where x also feeds a constant-valued node
        <<Placeholder("a", <<2>>), N("x", "Add", <<"a", "y">>), N("y", "Identity", <<"x">>),
          [N("v", "Identity", <<"x">>) EXCEPT !.value = TRUE]>>,
        \* a cycle between nodes that only feed constant-valued nodes
        <<Placeholder("a", <<2>>),
          [N("x", "Identity", <<"y">>) EXCEPT !.value = TRUE],
          [N("y", "Identity", <<"x">>) EXCEPT !.value = TRUE],
          N("o", "Identity", <<"a">>)>>,
        \* a constant k whose only consumer e is itself constant-valued
        <<Const("k", <<2>>), [N("e", "Identity", <<"k">>) EXCEPT !.value = TRUE],
          N("o", "Identity", <<"e">>)>>,
        \* TensorArray allocations: static size; dynamic size read from a
        \* one-element vector; dynamic size read from a two-element vector;
        \* elements of various shapes
        <<Placeholder("a", <<1>>), TensorArray("ta", "a", <<2>>, <<(<<3>>)>>),
          N("o", "Identity", <<"ta">>)>>,
        <<Placeholder("a", <<1>>), TensorArray("ta", "a", <<>>, <<(<<3>>), <<3>>>>),
          N("o", "Identity", <<"ta">>)>>,
        <<Placeholder("a", <<2>>), TensorArray("ta", "a", <<>>, <<(<<3>>)>>),
          N("o", "Identity", <<"ta">>)>>,
        <<Placeholder("a", <<1>>), TensorArray("ta", "a", <<>>, <<(<<3>>), <<2>>>>),
          N("o", "Identity", <<"ta">>)>>,
        \* elementwise maximum and minimum of two edges: shapes that
        \* broadcast, equal shapes, and shapes that do not broadcast
        <<Placeholder("a", <<1, 2>>), Const("b", <<3, 1>>),
          N("m", "Maximum", <<"a", "b">>), N("o", "Identity", <<"m">>)>>,
        <<Placeholder("a", <<2>>), Const("b", <<2>>),
          N("m", "Minimum", <<"a", "b">>), N("o", "Identity", <<"m">>)>>,
        <<Placeholder("a", <<2>>), Const("b", <<3>>),
          N("m", "Minimum", <<"a", "b">>), N("o", "Identity", <<"m">>)>>,
        <<Placeholder("a", <<2>>), Const("b", <<1, 3>>),
          N("m", "Maximum", <<"b", "a">>), N("o", "Identity", <<"m">>)>>,
        \* a make_tuple listed twice cannot occur in a dict; a tuple of a tuple
        <<Placeholder("a", <<2>>), Const("b", <<3>>),
          N("t1", "make_tuple", <<"a", "b">>), N("t2", "make_tuple", <<"t1", "a">>),
          GetTuple("h", "t2", 1), GetTuple("bad", "t2", 3),
          N("o", "Add", <<"h", "a">>)>> }}

Ensembles ==
    LoopEnsembles \cup {TwoLoopsEnsemble, PassLoopEnsemble, AliasLoopEnsemble}
        \cup PlainEnsembles

\* the name given as top_func
top_func == "main"

----------------------------------------------------------------------------
(* SSAConverter: state after construction *)

\* the keys of CONVERT_FUNCTION_MAP
CONVERT_FUNCTION_MAP ==
    {"Placeholder", "Const", "Transpose", "Shape", "StridedSlice", "Range",
     "TensorArrayV3", "Maximum", "Minimum", "TensorArrayScatterV3", "make_tuple",
     "while", "function_entry", "get_tuple", "Less", "NotEqual", "LogicalAnd",
     "Log", "return", "Add", "Sub", "SquaredDifference", "TensorArrayReadV3",
     "TensorArrayWriteV3", "ConcatV2", "MatMul", "BatchMatMul", "Embedding",
     "BiasAdd", "Split", "Sigmoid", "Relu", "LeakyRelu", "Tanh", "Mul",
     "Identity", "Cast", "TensorArraySizeV3", "TensorArrayGatherV3", "Pack",
     "Unpack", "Gather", "Sqrt", "Rsqrt", "Pow", "Conv2D", "Reshape", "Softmax",
     "Sum", "Mean", "ArgMax", "ReverseV2", "ReverseSequence", "ExpandDims"}

\* an activation of convert(): the function it lowers, its instruction_order
\* and the position of its for loop (entered = FALSE: the call has just begun)
ConvertFrame ==
    [kind |-> "convert", entered |-> FALSE, func |-> "", order |-> <<>>, idx |-> 0,
     node |-> "", phase |-> "", input_names |-> <<>>, net |-> 0, lidx |-> 0,
     stack0 |-> <<>>]

\* an activation of _convert_while(node): its locals, and (stack0) the
\* func_stack it was called with
WhileFrame(node, phase, input_names, net, lidx, stack0) ==
    [kind |-> "while", entered |-> TRUE, func |-> "", order |-> <<>>, idx |-> 0,
     node |-> node, phase |-> phase, input_names |-> input_names, net |-> net,
     lidx |-> lidx, stack0 |-> stack0]

\* top_input_names: the Placeholder nodes of the top function, in graph order
TopInputs(e) ==
    SelectSeq(e[top_func].nodes, LAMBDA n : e[top_func].graph[n].op = "Placeholder")

NoCall == [inputs |-> <<>>, map |-> <<>>, result |-> <<>>]

\* __init__ with inputs=None on top-level inputs of static shape, and the
\* call of convert() about to run
InitConv ==
    /\ ensemble \in Ensembles
    /\ status = "running"
    /\ err = ""
    /\ frames = <<ConvertFrame>>
    /\ func_stack = <<top_func>>
    /\ func_builder_map = (top_func :> 1)
    /\ op_tensor_map = <<>>
    /\ heap = [i \in DOMAIN TopInputs(ensemble) |->
                  ensemble[top_func].graph[TopInputs(ensemble)[i]].shape]
    /\ tensor_shapes = [n \in Range(TopInputs(ensemble)) |->
                           CHOOSE i \in DOMAIN TopInputs(ensemble) :
                               TopInputs(ensemble)[i] = n]
    /\ nets = << <<>> >>
    /\ done_loops = <<>>
    /\ last_call = NoCall
    /\ unify_log = <<>>
    /\ blob_names = <<>>
    /\ shaper_in = <<>> /\ description_output = <<>>

\* the shapes a top-level input may declare: dimensions that are unknown
\* (-1), zero, or positive
InputShapes == UNION {[1..r -> {-1, 0, 2}] : r \in 1..MaxRank}

\* a top-level input whose datatype is `shape`: None has no get_shape
TopInput(name, shape) ==
    IF shape.none THEN [Placeholder(name, <<>>) EXCEPT !.has_get_shape = FALSE]
    ELSE Placeholder(name, shape.z)

\* SSAConverter(net_ensemble, top_func, inputs=None) is about to be built, on
\* a top function with two inputs, or on an ensemble without the top function
InitConstruct ==
    /\ \/ \E sa \in {None} \cup {Some(z) : z \in InputShapes},
             sb \in {None} \cup {Some(z) : z \in InputShapes} :
              ensemble = [main |-> MkFunc(<<TopInput("a", sa), TopInput("b", sb),
                                            N("o", "Add", <<"a", "b">>)>>)]
       \/ ensemble = [cond |-> CondFunc("cond")]
    /\ status = "constructing"
    /\ err = ""
    /\ frames = <<>>
    /\ func_stack = <<>> /\ func_builder_map = <<>> /\ op_tensor_map = <<>>
    /\ heap = <<>> /\ tensor_shapes = <<>>
    /\ nets = <<>>
    /\ done_loops = <<>>
    /\ last_call = NoCall
    /\ unify_log = <<>>
    /\ blob_names = <<>>
    /\ shaper_in = <<>> /\ description_output = <<>>

\* lines 90-120 with inputs=None, from the i-th top-level input on: the
\* error raised, "" when every input has a static shape
RECURSIVE CheckTopInputs(_, _, _)
CheckTopInputs(graph, top_input_names, i) ==
    IF i > Len(top_input_names) THEN ""
    ELSE IF ~graph[top_input_names[i]].has_get_shape
    THEN "ValueError: nnssa input has non-static shape"
    ELSE IF ~is_static_shape(graph[top_input_names[i]].shape)
    THEN "ValueError: nnssa input has non-static shape"
    ELSE CheckTopInputs(graph, top_input_names, i + 1)

\* SSAConverter.__init__(net_ensemble, top_func, inputs=None, outputs=None);
\* once the converter is built, convert() is called on it
Construct ==
    /\ status = "constructing"
    /\ IF top_func \notin DOMAIN ensemble
       THEN /\ status' = "init_error"
            /\ err' = "ValueError: top level function not in the ensemble"
            /\ UNCHANGED <<frames, func_stack, func_builder_map, op_tensor_map,
                           tensor_shapes, heap, nets>>
       ELSE \E e \in {CheckTopInputs(ensemble[top_func].graph, TopInputs(ensemble), 1)} :
               IF e # ""
               THEN /\ status' = "init_error"
                    /\ err' = e
                    /\ UNCHANGED <<frames, func_stack, func_builder_map, op_tensor_map,
                                   tensor_shapes, heap, nets>>
               ELSE /\ status' = "running"
                    /\ err' = err
                    /\ frames' = <<ConvertFrame>>
                    /\ func_stack' = <<top_func>>
                    /\ func_builder_map' = (top_func :> 1)
                    /\ op_tensor_map' = <<>>
                    /\ heap' = [i \in DOMAIN TopInputs(ensemble) |->
                                    ensemble[top_func].graph[TopInputs(ensemble)[i]].shape]
                    /\ tensor_shapes' = [n \in Range(TopInputs(ensemble)) |->
                                             CHOOSE i \in DOMAIN TopInputs(ensemble) :
                                                 TopInputs(ensemble)[i] = n]
                    /\ nets' = << <<>> >>
    /\ UNCHANGED <<ensemble, done_loops, last_call, unify_log, blob_names, shaper_in,
                   description_output, pin, px, py, pres, rcall, rres>>

PureOff ==
    /\ pin = <<>> /\ px = <<>> /\ py = <<>> /\ pres = <<>>
    /\ rcall = <<>> /\ rres = <<>>

Init == (InitConv \/ InitConstruct \/ InitShaper) /\ PureOff

----------------------------------------------------------------------------
(* SSAConverter.convert *)

\* restricted_graph with any() in place of all() on line 249
RestrictedGraphAny(function) ==
    {k \in DOMAIN function.graph :
        ~ (/\ Len(function.graph[k].outputs) > 0
           /\ \E i \in DOMAIN function.graph[k].outputs :
                  function.graph[function.graph[k].outputs[i]].value)}

\* restricted_graph: the nodes that are not left out (lines 246-252)
RestrictedGraph(function) ==
    {k \in DOMAIN function.graph :
        ~ (/\ Len(function.graph[k].outputs) > 0
           /\ \A i \in DOMAIN function.graph[k].outputs :
                  function.graph[function.graph[k].outputs[i]].value)}

\* topsort(restricted_graph): every order of the restricted nodes in which a
\* node comes after the restricted nodes it takes input from; empty when the
\* restricted graph has a cycle
RECURSIVE TopOrders(_, _, _)
TopOrders(graph, remaining, placed) ==
    UNION {
      IF r = {} THEN {p}
      ELSE UNION {TopOrders(graph, r \ {n}, Append(p, n)) :
                     n \in {m \in r : Range(graph[m].inputs) \cap r = {}}}
      : r \in {remaining}, p \in {placed}}

topsort(function) == TopOrders(function.graph, RestrictedGraph(function), <<>>)

Top == Last(frames)

\* self._get_builder(): the network of the function on top of func_stack
Builder == func_builder_map[Last(func_stack)]

\* self._get_current_graph()
CurrentGraph == ensemble[Last(func_stack)].graph

\* convert() begins: lines 240-253
ConvertEnter ==
    /\ status = "running" /\ frames # <<>>
    /\ Top.kind = "convert" /\ ~Top.entered
    /\ LET func_name == Last(func_stack)
       IN IF Len(frames) > MaxFrames
          THEN /\ status' = "error" /\ err' = "RecursionError" /\ frames' = frames
          ELSE IF func_name \notin DOMAIN ensemble
          THEN /\ status' = "error" /\ err' = "KeyError" /\ frames' = frames
          ELSE \E orders \in {topsort(ensemble[func_name])} :
                  IF orders = {}
                  THEN /\ status' = "error" /\ err' = "ValueError: graph is not a DAG"
                       /\ frames' = frames
                  ELSE \E instruction_order \in orders :
                          /\ frames' = [frames EXCEPT ![Len(frames)] =
                                           [@ EXCEPT !.entered = TRUE,
                                                     !.func = func_name,
                                                     !.order = instruction_order,
                                                     !.idx = 1]]
                          /\ status' = status /\ err' = err
    /\ UNCHANGED <<ensemble, func_stack, func_builder_map, op_tensor_map,
                   tensor_shapes, heap, nets, done_loops, last_call, unify_log,
                   blob_names, shaper_in,
                   description_output, pureVars>>

\* the for loop of convert() is about to dispatch a node
Dispatching ==
    /\ status = "running" /\ frames # <<>>
    /\ Top.kind = "convert" /\ Top.entered /\ Top.idx <= Len(Top.order)

\* node = func.graph[node_name]
CurNode == ensemble[Top.func].graph[Top.order[Top.idx]]

\* the for loop moves on to the next node
Advance(fs) == [fs EXCEPT ![Len(fs)].idx = @ + 1]

\* lines 258-261 with `continue` in place of the raise
DispatchUnsupportedSkip ==
    /\ Dispatching
    /\ CurNode.op \notin CONVERT_FUNCTION_MAP
    /\ frames' = Advance(frames)
    /\ UNCHANGED <<ensemble, status, err, func_stack, func_builder_map,
                   op_tensor_map, tensor_shapes, heap, nets, done_loops, last_call,
                   unify_log, blob_names, shaper_in,
                   description_output, pureVars>>

\* lines 258-261: no CONVERT_FUNCTION_MAP entry for the node's op
DispatchUnsupported ==
    /\ Dispatching
    /\ CurNode.op \notin CONVERT_FUNCTION_MAP
    /\ status' = "error"
    /\ err' = "NotImplementedError: conversion for op not implemented"
    /\ UNCHANGED <<ensemble, frames, func_stack, func_builder_map, op_tensor_map,
                   tensor_shapes, heap, nets, done_loops, last_call, unify_log,
                   blob_names, shaper_in,
                   description_output, pureVars>>

\* the top-level convert() returns
ConvertReturn ==
    /\ status = "running" /\ Len(frames) = 1
    /\ Top.kind = "convert" /\ Top.entered /\ Top.idx > Len(Top.order)
    /\ status' = "done"
    /\ frames' = <<>>
    /\ UNCHANGED <<ensemble, err, func_stack, func_builder_map, op_tensor_map,
                   tensor_shapes, heap, nets, done_loops, last_call, unify_log,
                   blob_names, shaper_in,
                   description_output, pureVars>>

----------------------------------------------------------------------------
(* Lowering routines without nested functions *)

\* _get_input_tensors with append(binding[0]) in place of extend(binding)
RECURSIVE get_input_tensors_first(_, _)
get_input_tensors_first(inputs, otm) ==
    IF inputs = <<>> THEN <<>>
    ELSE (IF Head(inputs) \in DOMAIN otm
          THEN SubSeq(otm[Head(inputs)], 1, 1) ELSE <<Head(inputs)>>)
         \o get_input_tensors_first(Tail(inputs), otm)

\* _get_input_tensors(node)
RECURSIVE get_input_tensors(_, _)
get_input_tensors(inputs, otm) ==
    IF inputs = <<>> THEN <<>>
    ELSE (IF Head(inputs) \in DOMAIN otm THEN otm[Head(inputs)] ELSE <<Head(inputs)>>)
         \o get_input_tensors(Tail(inputs), otm)

Call(node) ==
    [inputs |-> node.inputs, map |-> op_tensor_map,
     result |-> get_input_tensors(node.inputs, op_tensor_map)]

\* what a lowering routine leaves behind
Res(cs, otm, call) == cs @@ [otm |-> otm, call |-> call]

Failed(e, otm, call) ==
    [ok |-> FALSE, err |-> e, nets |-> nets, ts |-> tensor_shapes, heap |-> heap,
     log |-> unify_log, otm |-> otm, call |-> call]

CS0 == CS(nets, tensor_shapes, heap, unify_log)

\* convert_func(node) is over: the loop goes on, or the exception leaves
\* convert() with everything as it was at the raise
Finish(res) ==
    /\ nets' = res.nets
    /\ tensor_shapes' = res.ts
    /\ heap' = res.heap
    /\ unify_log' = res.log
    /\ op_tensor_map' = res.otm
    /\ last_call' = res.call
    /\ IF res.ok
       THEN /\ frames' = Advance(frames) /\ status' = status /\ err' = err
       ELSE /\ frames' = frames /\ status' = "error" /\ err' = res.err
    /\ UNCHANGED <<ensemble, func_stack, func_builder_map, done_loops, blob_names, shaper_in,
                   description_output, pureVars>>

\* a pass routine after which the for loop stays on the same node
ConvertPassStuck ==
    /\ Dispatching
    /\ CurNode.op \in {"Placeholder", "function_entry", "return"}
    /\ UNCHANGED vars

\* _convert_input, _convert_function, _convert_return: pass
ConvertPass ==
    /\ Dispatching
    /\ CurNode.op \in {"Placeholder", "function_entry", "return"}
    /\ Finish(Res(CS0, op_tensor_map, last_call))

\* _convert_const
convert_const(node) ==
    LET val_shape == IF node.shape = <<>> THEN <<1>> ELSE node.shape
        layer == [Layer("loadConstantND", node.name, <<>>, <<node.name>>)
                     EXCEPT !.shape = val_shape]
    IN Res(EmitLayer(CS0, Builder, layer), op_tensor_map, last_call)

ConvertConst == Dispatching /\ CurNode.op = "Const" /\ \E res \in {convert_const(CurNode)} : Finish(res)

\* _convert_identity
convert_identity(node) ==
    LET c == Call(node)
    IN IF c.result = <<>> THEN Failed("IndexError", op_tensor_map, c)
       ELSE Res(EmitLayer(CS0, Builder,
                          Layer("activation", node.name, <<c.result[1]>>, <<node.name>>)),
                op_tensor_map, c)

ConvertIdentity ==
    Dispatching /\ CurNode.op = "Identity" /\ \E res \in {convert_identity(CurNode)} : Finish(res)

\* _convert_add
convert_add(node) ==
    IF Len(node.inputs) # 2 THEN Failed("AssertionError", op_tensor_map, last_call)
    ELSE LET c == Call(node)
         IN Res(EmitLayer(CS0, Builder,
                          Layer("addBroadcastable", node.name, c.result, <<node.name>>)),
                op_tensor_map, c)

ConvertAdd == Dispatching /\ CurNode.op = "Add" /\ \E res \in {convert_add(CurNode)} : Finish(res)

\* _convert_maximum: builder.add_elementwise(..., mode='MAX') makes a 'max' layer
convert_maximum(node) ==
    IF Len(node.inputs) # 2 THEN Failed("AssertionError", op_tensor_map, last_call)
    ELSE LET c == Call(node)
         IN Res(EmitLayer(CS0, Builder,
                          Layer("max", node.name, c.result, <<node.name>>)),
                op_tensor_map, c)

ConvertMaximum ==
    Dispatching /\ CurNode.op = "Maximum" /\ \E res \in {convert_maximum(CurNode)} : Finish(res)

\* _convert_minimum: builder.add_elementwise(..., mode='MIN') makes a 'min' layer
convert_minimum(node) ==
    IF Len(node.inputs) # 2 THEN Failed("AssertionError", op_tensor_map, last_call)
    ELSE LET c == Call(node)
         IN Res(EmitLayer(CS0, Builder,
                          Layer("min", node.name, c.result, <<node.name>>)),
                op_tensor_map, c)

ConvertMinimum ==
    Dispatching /\ CurNode.op = "Minimum" /\ \E res \in {convert_minimum(CurNode)} : Finish(res)

\* _convert_less
convert_less(node) ==
    IF Len(node.inputs) # 2 THEN Failed("AssertionError", op_tensor_map, last_call)
    ELSE LET c == Call(node)
         IN Res(EmitLayer(CS0, Builder,
                          Layer("lessThan", node.name, c.result, <<node.name>>)),
                op_tensor_map, c)

ConvertLess == Dispatching /\ CurNode.op = "Less" /\ \E res \in {convert_less(CurNode)} : Finish(res)

\* _convert_reshape
convert_reshape(node) ==
    LET c == Call(node)
    IN IF node.has_output_shapes
       THEN IF c.result = <<>> THEN Failed("IndexError", op_tensor_map, c)
            ELSE Res(EmitLayer(CS0, Builder,
                               [Layer("reshapeStatic", node.name, <<c.result[1]>>,
                                      <<node.name>>) EXCEPT !.shape = node.shape]),
                     op_tensor_map, c)
       ELSE Res(EmitLayer(CS0, Builder,
                          Layer("reshapeDynamic", node.name, c.result, <<node.name>>)),
                op_tensor_map, c)

ConvertReshape == Dispatching /\ CurNode.op = "Reshape" /\ \E res \in {convert_reshape(CurNode)} : Finish(res)

\* _convert_make_tuple
convert_make_tuple(node) ==
    IF node.name \in DOMAIN op_tensor_map
    THEN Failed("ValueError: make_tuple node should not be visited twice",
                op_tensor_map, last_call)
    ELSE LET c == Call(node)
         IN Res(CS0, (node.name :> c.result) @@ op_tensor_map, c)

ConvertMakeTuple ==
    Dispatching /\ CurNode.op = "make_tuple" /\ \E res \in {convert_make_tuple(CurNode)} : Finish(res)

\* _convert_get_tuple
convert_get_tuple(node) ==
    LET c == Call(node)
        i == PyIndex(node.index, Len(c.result))
    IN IF i \notin DOMAIN c.result THEN Failed("IndexError", op_tensor_map, c)
       ELSE Res(CS0, (node.name :> <<c.result[i]>>) @@ op_tensor_map, c)

ConvertGetTuple ==
    Dispatching /\ CurNode.op = "get_tuple" /\ \E res \in {convert_get_tuple(CurNode)} : Finish(res)

\* _convert_split (static, even splits: split = [size] * num)
convert_split(node) ==
    LET c == Call(node)
        output_names == [i \in 1..node.num |-> node.name \o "_" \o ToString(i - 1) \o "_"]
    IN IF node.name \in DOMAIN op_tensor_map
       THEN Failed("ValueError: split node should not be visited twice", op_tensor_map, c)
       ELSE LET otm == (node.name :> output_names) @@ op_tensor_map
            IN IF c.result = <<>> THEN Failed("IndexError", otm, c)
               ELSE Res(EmitLayer(CS0, Builder,
                                  [Layer("splitND", node.name, <<Last(c.result)>>,
                                         output_names)
                                      EXCEPT !.axis = node.axis, !.num = node.num]),
                        otm, c)

ConvertSplit == Dispatching /\ CurNode.op = "Split" /\ \E res \in {convert_split(CurNode)} : Finish(res)

\* the for loop of _convert_unpack: one squeeze per output name
RECURSIVE UnpackSqueezes(_, _, _, _, _)
UnpackSqueezes(cs, builder, interm_output_names, output_names, k) ==
    IF k > Len(output_names) THEN cs
    ELSE UnpackSqueezes(
             EmitLayer(cs, builder,
                       [Layer("squeeze", output_names[k], <<interm_output_names[k]>>,
                              <<output_names[k]>>) EXCEPT !.axes = <<0>>]),
             builder, interm_output_names, output_names, k + 1)

\* _convert_unpack
convert_unpack(node) ==
    LET c == Call(node)
        output_names == node.outputs
        otm == (node.name :> output_names) @@ op_tensor_map
        interm_output_names == [k \in DOMAIN output_names |->
                                   output_names[k] \o "_unsqueezed_"]
    IN IF c.result = <<>> THEN Failed("IndexError", otm, c)
       ELSE Res(UnpackSqueezes(
                    EmitLayer(CS0, Builder,
                              [Layer("splitND", node.name, <<c.result[1]>>,
                                     interm_output_names)
                                  EXCEPT !.axis = node.axis, !.num = node.num]),
                    Builder, interm_output_names, output_names, 1),
                otm, c)

ConvertUnpack == Dispatching /\ CurNode.op = "Unpack" /\ \E res \in {convert_unpack(CurNode)} : Finish(res)

\* l[1:] = es on a Python list
SliceAssign(l, es) == IF l = <<>> THEN es ELSE <<l[1]>> \o es

\* lines 458-460: "Overwrite the output shape with fixed element shape", on
\* the Shape Table entry and on the annotation of the fillDynamic layer
OverwriteElementShape(cs, builder, name, es) ==
    Only({
      IF ~c.ok THEN c
      ELSE LET old == c.heap[c.ts[name]]
               new == SliceAssign(old, es)
               last == Len(c.nets[builder])
           IN [c EXCEPT
                  !.heap[c.ts[name]] = new,
                  !.nets[builder][last].outputTensor[1] = SliceAssign(@, es),
                  !.log = Append(@, [op |-> "overwrite", blob |-> name, old |-> old,
                                     new |-> new, none |-> FALSE, after |-> new])]
      : c \in {cs}})

\* _convert_tensorarray_alloc
convert_tensorarray_alloc(node) ==
    LET c == Call(node)
        input_names == c.result
        element_shapes == node.element_shapes
        es == element_shapes[1]
        node_es_name == node.name \o "__element_shape"
        node_arr_shape_name == node.name \o "__arr_shape"
    IN IF Len(input_names) # 1 THEN Failed("AssertionError", op_tensor_map, c)
       ELSE IF \E i \in DOMAIN element_shapes : element_shapes[i] # element_shapes[1]
       THEN Failed("ValueError: arrays with tensors of various shapes",
                   op_tensor_map, c)
       ELSE IF element_shapes = <<>> THEN Failed("IndexError", op_tensor_map, c)
       ELSE IF node.size # <<>>
       THEN Res(EmitLayer(CS0, Builder,
                    [Layer("loadConstantND", node.name, <<>>, <<node.name>>)
                        EXCEPT !.shape = node.size \o es]),
                op_tensor_map, c)
       ELSE Res(OverwriteElementShape(
                    EmitLayer(
                        EmitLayer(
                            EmitLayer(CS0, Builder,
                                [Layer("loadConstantND", node_es_name, <<>>,
                                       <<node_es_name>>)
                                    EXCEPT !.shape = <<Len(es)>>]),
                            Builder,
                            Layer("concatND", node_arr_shape_name,
                                  input_names \o <<node_es_name>>,
                                  <<node_arr_shape_name>>)),
                        Builder,
                        Layer("fillDynamic", node.name, <<node_arr_shape_name>>,
                              <<node.name>>)),
                    Builder, node.name, es),
                op_tensor_map, c)

ConvertTensorArrayAlloc ==
    Dispatching /\ CurNode.op = "TensorArrayV3"
                /\ \E res \in {convert_tensorarray_alloc(CurNode)} : Finish(res)

----------------------------------------------------------------------------
(* SSAConverter._convert_while *)

\* cond_func.outputs: the nodes of a function that nothing consumes
FuncOutputs(function) ==
    SelectSeq(function.nodes, LAMBDA n : function.graph[n].outputs = <<>>)

\* lines 555-560: the first make_tuple, in graph order, whose first consumer
\* is a return; "" is None, "!" is the IndexError of v.outputs[0]
RECURSIVE FindLoopVarTuple(_, _)
FindLoopVarTuple(function, i) ==
    IF i > Len(function.nodes) THEN ""
    ELSE LET v == function.graph[function.nodes[i]]
         IN IF v.op # "make_tuple" THEN FindLoopVarTuple(function, i + 1)
            ELSE IF v.outputs = <<>> THEN "!"
            ELSE IF function.graph[v.outputs[1]].op = "return" THEN function.nodes[i]
            ELSE FindLoopVarTuple(function, i + 1)

\* InsertCopies without the `if src == dst: continue` of line 572
RECURSIVE InsertCopiesAlways(_, _, _, _, _)
InsertCopiesAlways(cs, builder_body, loop_var_names, input_names, k) ==
    IF k > Len(loop_var_names) \/ k > Len(input_names) THEN cs
    ELSE InsertCopiesAlways(
             EmitLayer(cs, builder_body,
                       Layer("copy", "copy_" \o loop_var_names[k] \o "_" \o input_names[k],
                             <<loop_var_names[k]>>, <<input_names[k]>>)),
             builder_body, loop_var_names, input_names, k + 1)

\* lines 570-576: a copy layer for every position whose names differ
RECURSIVE InsertCopies(_, _, _, _, _)
InsertCopies(cs, builder_body, loop_var_names, input_names, k) ==
    IF k > Len(loop_var_names) \/ k > Len(input_names) THEN cs
    ELSE LET src == loop_var_names[k]
             dst == input_names[k]
         IN IF src = dst
            THEN InsertCopies(cs, builder_body, loop_var_names, input_names, k + 1)
            ELSE InsertCopies(
                     EmitLayer(cs, builder_body,
                               Layer("copy", "copy_" \o src \o "_" \o dst,
                                     <<src>>, <<dst>>)),
                     builder_body, loop_var_names, input_names, k + 1)

\* an exception leaves _convert_while
WhileRaise(e, fs) ==
    /\ status' = "error" /\ err' = e /\ frames' = fs

\* lines 512 and 530 with the condition function bound to the references of
\* the node, unresolved
BindLoopNamesUnresolved(otm, node, input_names) ==
    (node.cond_function :> node.inputs) @@ (node.name :> input_names) @@ otm

\* lines 512 and 530: the while node and then the condition function are
\* bound to input_names
BindLoopNames(otm, node, input_names) ==
    (node.cond_function :> input_names) @@ (node.name :> input_names) @@ otm

\* lines 504-531: up to the nested convert() of the condition function
ConvertWhile ==
    /\ Dispatching
    /\ CurNode.op = "while"
    /\ LET node == CurNode
           c == Call(node)
           input_names == c.result
           builder_top == Builder
           lidx == Len(nets[builder_top]) + 1
           nid == Len(nets) + 1
           wf(phase) == WhileFrame(node.name, phase, input_names, builder_top, lidx,
                                   func_stack)
           loop(cn) == [Layer("loop", node.name, <<>>, <<>>)
                           EXCEPT !.conditionNetwork = cn]
       IN IF Len(node.inputs) # 1
          THEN /\ WhileRaise("AssertionError", Append(frames, wf("enter")))
               /\ UNCHANGED <<func_stack, func_builder_map, op_tensor_map, nets, last_call>>
          ELSE IF node.inputs[1] \notin DOMAIN CurrentGraph
          THEN /\ WhileRaise("KeyError", Append(frames, wf("enter")))
               /\ UNCHANGED <<func_stack, func_builder_map, op_tensor_map, nets, last_call>>
          ELSE IF CurrentGraph[node.inputs[1]].op # "make_tuple"
          THEN /\ WhileRaise("AssertionError", Append(frames, wf("enter")))
               /\ UNCHANGED <<func_stack, func_builder_map, op_tensor_map, nets, last_call>>
          ELSE IF node.cond_function = ""
          THEN /\ WhileRaise("ValueError: unable to determine condition function",
                             Append(frames, wf("enter")))
               /\ op_tensor_map' = (node.name :> input_names) @@ op_tensor_map
               /\ nets' = [nets EXCEPT ![builder_top] = Append(@, loop(0))]
               /\ last_call' = c
               /\ UNCHANGED <<func_stack, func_builder_map>>
          ELSE /\ op_tensor_map' = BindLoopNames(op_tensor_map, node, input_names)
               /\ nets' = Append([nets EXCEPT ![builder_top] = Append(@, loop(nid))],
                                 <<>>)
               /\ func_stack' = Append(func_stack, node.cond_function)
               /\ func_builder_map' = (node.cond_function :> nid) @@ func_builder_map
               /\ last_call' = c
               /\ frames' = frames \o <<wf("cond"), ConvertFrame>>
               /\ status' = status /\ err' = err
    /\ UNCHANGED <<ensemble, tensor_shapes, heap, done_loops, unify_log, blob_names, shaper_in,
                   description_output, pureVars>>

\* a nested convert() has returned into the _convert_while that called it
Returning(phase) ==
    /\ status = "running" /\ Len(frames) >= 3
    /\ Top.kind = "convert" /\ Top.entered /\ Top.idx > Len(Top.order)
    /\ frames[Len(frames) - 1].kind = "while"
    /\ frames[Len(frames) - 1].phase = phase

\* the activation of _convert_while and the node it lowers
TopWhile == frames[Len(frames) - 1]

WhileNode == ensemble[frames[Len(frames) - 2].func].graph[TopWhile.node]

\* the test of line 540 taken to find a body function in every node
has_body_function_always(node) == TRUE

\* 'body_function' in node.attr (line 540)
has_body_function(node) == node.body_function # ""

\* lines 532-551: from the return of the condition's convert() up to the
\* nested convert() of the body function
WhileAfterCond ==
    /\ Returning("cond")
    /\ LET node == WhileNode
           wf == TopWhile
           cond_func == ensemble[node.cond_function]
           outs == FuncOutputs(cond_func)
           nid == Len(nets) + 1
           fs == SubSeq(frames, 1, Len(frames) - 1)
           setVar(n, cv) == [n EXCEPT ![wf.net][wf.lidx].conditionVar = cv]
       IN IF outs = <<>> \/ cond_func.graph[outs[1]].inputs = <<>>
          THEN /\ WhileRaise("IndexError", fs)
               /\ UNCHANGED <<func_stack, func_builder_map, op_tensor_map, nets>>
          ELSE LET conditionVar == cond_func.graph[outs[1]].inputs[1]
               IN IF ~has_body_function(node)
                  THEN /\ WhileRaise("ValueError: a while node should not be empty", fs)
                       /\ nets' = setVar(nets, conditionVar)
                       /\ func_stack' = Front(func_stack)
                       /\ UNCHANGED <<func_builder_map, op_tensor_map>>
                  ELSE /\ nets' = Append([setVar(nets, conditionVar) EXCEPT
                                             ![wf.net][wf.lidx].bodyNetwork = nid], <<>>)
                       /\ func_stack' = Append(Front(func_stack), node.body_function)
                       /\ func_builder_map' =
                              (node.body_function :> nid) @@ func_builder_map
                       /\ op_tensor_map' =
                              (node.body_function :> wf.input_names) @@ op_tensor_map
                       /\ frames' = Front(fs) \o <<[wf EXCEPT !.phase = "body"],
                                                   ConvertFrame>>
                       /\ status' = status /\ err' = err
    /\ UNCHANGED <<ensemble, tensor_shapes, heap, done_loops, last_call, unify_log,
                   blob_names, shaper_in,
                   description_output, pureVars>>

\* lines 553-580: from the return of the body's convert() to the return of
\* _convert_while
WhileAfterBody ==
    /\ Returning("body")
    /\ LET node == WhileNode
           wf == TopWhile
           body_func == ensemble[node.body_function]
           loop_var_tuple_name == FindLoopVarTuple(body_func, 1)
           fs == SubSeq(frames, 1, Len(frames) - 1)
       IN IF loop_var_tuple_name = "!"
          THEN /\ WhileRaise("IndexError", fs)
               /\ UNCHANGED <<func_stack, nets, tensor_shapes, heap, done_loops,
                                       unify_log>>
          ELSE IF loop_var_tuple_name \notin DOMAIN op_tensor_map
          THEN /\ WhileRaise("KeyError", fs)
               /\ UNCHANGED <<func_stack, nets, tensor_shapes, heap, done_loops,
                                       unify_log>>
          ELSE LET loop_var_names == op_tensor_map[loop_var_tuple_name]
                   builder_body == Builder
               IN IF Len(loop_var_names) # Len(wf.input_names)
                  THEN /\ WhileRaise("AssertionError", fs)
                       /\ UNCHANGED <<func_stack, nets, tensor_shapes, heap, done_loops,
                                       unify_log>>
                  ELSE \E cs \in {InsertCopies(CS0, builder_body, loop_var_names,
                                                wf.input_names, 1)} :
                       /\ nets' = cs.nets
                       /\ tensor_shapes' = cs.ts
                       /\ heap' = cs.heap
                       /\ unify_log' = cs.log
                       /\ IF cs.ok
                          THEN /\ func_stack' = Front(func_stack)
                               /\ frames' = Advance(Front(fs))
                               /\ status' = status /\ err' = err
                               /\ done_loops' = Append(done_loops,
                                      [node |-> node.name,
                                       input_names |-> wf.input_names,
                                       loop_var_names |-> loop_var_names,
                                       body |-> builder_body,
                                       pre |-> Len(nets[builder_body]),
                                       stack0 |-> wf.stack0,
                                       stack1 |-> Front(func_stack)])
                          ELSE /\ WhileRaise(cs.err, fs)
                               /\ UNCHANGED <<func_stack, done_loops>>
    /\ UNCHANGED <<ensemble, func_builder_map, op_tensor_map, last_call, blob_names, shaper_in,
                   description_output, pureVars>>

----------------------------------------------------------------------------
(* The conversion *)

Next ==
    \/ Construct
    \/ ConvertEnter
    \/ DispatchUnsupported
    \/ ConvertReturn
    \/ ConvertPass
    \/ ConvertConst
    \/ ConvertIdentity
    \/ ConvertAdd
    \/ ConvertLess
    \/ ConvertMaximum
    \/ ConvertMinimum
    \/ ConvertReshape
    \/ ConvertMakeTuple
    \/ ConvertGetTuple
    \/ ConvertSplit
    \/ ConvertUnpack
    \/ ConvertTensorArrayAlloc
    \/ ConvertWhile
    \/ WhileAfterCond
    \/ WhileAfterBody
    \/ PropagateShapes

Spec == Init /\ [][Next]_vars

\* convert() is one sequential computation that runs until it returns or raises
SpecFair == Spec /\ WF_vars(Next)

----------------------------------------------------------------------------
(* Direct calls of shapes.get_common_shape on two list objects *)

Shapes == UNION {[1..r -> DimValues] : r \in 0..MaxRank}

ConvOff ==
    /\ ensemble = <<>> /\ status = "off" /\ err = "" /\ frames = <<>>
    /\ func_stack = <<>> /\ func_builder_map = <<>> /\ op_tensor_map = <<>>
    /\ tensor_shapes = <<>> /\ heap = <<>> /\ nets = <<>> /\ done_loops = <<>>
    /\ last_call = NoCall /\ unify_log = <<>> /\ blob_names = <<>>
    /\ shaper_in = <<>> /\ description_output = <<>>

InitPure ==
    /\ ConvOff
    /\ px \in Shapes /\ py \in Shapes
    /\ pin = <<px, py>>
    /\ pres = <<>>
    /\ rcall = <<>> /\ rres = <<>>

CallRecord(fn, x, y, r) == [fn |-> fn, x |-> x, y |-> y, none |-> r.none, z |-> r.z]

\* get_common_shape(x, y): z is x, so x holds the result afterwards
CallCommonXY ==
    /\ Len(pres) < MaxCalls
    /\ LET r == get_common_shape(px, py)
       IN /\ pres' = Append(pres, CallRecord("xy", px, py, r))
          /\ px' = IF r.none THEN px ELSE r.z
    /\ UNCHANGED <<pin, py, rcall, rres, convVars>>

\* get_common_shape(y, x)
CallCommonYX ==
    /\ Len(pres) < MaxCalls
    /\ LET r == get_common_shape(py, px)
       IN /\ pres' = Append(pres, CallRecord("yx", py, px, r))
          /\ py' = IF r.none THEN py ELSE r.z
    /\ UNCHANGED <<pin, px, rcall, rres, convVars>>

\* get_common_shape(x, x)
CallCommonXX ==
    /\ Len(pres) < MaxCalls
    /\ LET r == get_common_shape(px, px)
       IN /\ pres' = Append(pres, CallRecord("xx", px, px, r))
          /\ px' = IF r.none THEN px ELSE r.z
    /\ UNCHANGED <<pin, py, rcall, rres, convVars>>

NextPure == CallCommonXY \/ CallCommonYX \/ CallCommonXX

SpecPure == InitPure /\ [][NextPure]_vars

----------------------------------------------------------------------------
(* Direct calls of is_a_shape_of and of the shape rules *)

\* the shapes of rank at most r over the dimension values D
ShapesOver(D, r) == UNION {[1..k -> D] : k \in 0..r}

\* a call: the function, the layer (its kind and parameters), the input
\* shapes and, for is_a_shape_of, the reference shape y
RuleCall(fn, layer, shapes, ref) ==
    [fn |-> fn, layer |-> layer, shapes |-> shapes, ref |-> ref]

\* a layer of the given kind with one input name per input shape
RuleLayer(type, n) ==
    Layer(type, "l", [k \in 1..n |-> <<"in0", "in1", "in2">>[k]], <<"out">>)

\* is_a_shape_of(x, y) on a shape x and a reference y that is None or a shape
InitIsAShapeOf ==
    \E x \in Shapes, y \in {None} \cup {Some(z) : z \in Shapes} :
        rcall = RuleCall("is_a_shape_of", RuleLayer("", 0), <<x>>, y)

\* the broadcastable add, subtract and multiply rules on two input shapes
InitBroadcast ==
    \E t \in {"addBroadcastable", "subtractBroadcastable", "multiplyBroadcastable"},
       x \in ShapesOver({-1, 1, 2, 3, 4}, MaxRank),
       y \in ShapesOver({-1, 1, 2, 3, 4}, MaxRank) :
        rcall = RuleCall("add_broadcastable", RuleLayer(t, 2), <<x, y>>, None)

\* the axes given to a reduction: in range, negative, repeated, out of range
AxisValues == (0 - MaxRank)..MaxRank

InitReduce ==
    \E t \in {"reduceSum", "reduceMean"},
       axes \in UNION {[1..k -> AxisValues] : k \in 0..2},
       kd \in BOOLEAN, ra \in BOOLEAN,
       x \in ShapesOver({-1, 2, 3}, MaxRank) :
        rcall = RuleCall("reduce_general",
                         [RuleLayer(t, 1) EXCEPT !.axes = axes, !.keepDims = kd,
                                                 !.reduceAll = ra],
                         <<x>>, None)

\* static splits of one input into 1..3 parts, and a split with two inputs
InitSplit ==
    \/ \E ax \in {0, 1}, n \in 1..3,
          x \in ShapesOver({-1, 2, 4, 5, 6}, MaxRank) \ {<<>>} :
           rcall = RuleCall("split_nd",
                            [RuleLayer("splitND", 1) EXCEPT !.axis = ax, !.num = n],
                            <<x>>, None)
    \/ rcall = RuleCall("split_nd", [RuleLayer("splitND", 2) EXCEPT !.num = 2],
                        <<(<<4>>), <<1>>>>, None)

\* stacks of 1..3 inputs
InitStack ==
    \E ax \in {0, 1}, n \in 1..3 :
        \E xs \in [1..n -> ShapesOver({2, 4}, MaxRank)] :
            rcall = RuleCall("stack_nd",
                             [RuleLayer("stackND", n) EXCEPT !.axis = ax], xs, None)

\* matrix products of two operands with up to MaxRank - 1 batch dimensions
InitMatMul ==
    \E ta \in BOOLEAN, tb \in BOOLEAN,
       x \in ShapesOver({-1, 2, 3}, MaxRank + 1),
       y \in ShapesOver({-1, 2, 3}, MaxRank + 1) :
        rcall = RuleCall("batched_mat_mul",
                         [RuleLayer("batchedMatmul", 2) EXCEPT !.transposeA = ta,
                                                              !.transposeB = tb],
                         <<x, y>>, None)

\* inner products with the weights in the layer (one input) and with the
\* weight matrix as second input
InitInnerProduct ==
    \/ \E ic \in {2, 3}, x \in ShapesOver({-1, 2, 3}, MaxRank) \ {<<>>} :
           rcall = RuleCall("inner_product",
                            [RuleLayer("innerProduct", 1) EXCEPT !.inputChannels = ic,
                                                                 !.outputChannels = 4],
                            <<x>>, None)
    \/ \E x \in ShapesOver({-1, 2, 3}, MaxRank) \ {<<>>}, w \in [1..2 -> {-1, 2, 3}] :
           rcall = RuleCall("inner_product", RuleLayer("innerProduct", 2),
                            <<x, w>>, None)

\* expandDims with one or two axes on one input
InitExpandDims ==
    \E axes \in UNION {[1..k -> (0 - MaxRank - 1)..MaxRank] : k \in 1..2},
       x \in ShapesOver({2, 3}, MaxRank) :
        rcall = RuleCall("expand_dims",
                         [RuleLayer("expandDims", 1) EXCEPT !.axes = axes], <<x>>, None)

\* squeeze over zero to two axes of one input of rank up to MaxRank + 1
InitSqueeze ==
    \E axes \in UNION {[1..k -> (0 - MaxRank - 1)..MaxRank] : k \in 0..2},
       x \in ShapesOver({-1, 1, 5}, MaxRank + 1) :
        rcall = RuleCall("squeeze",
                         [RuleLayer("squeeze", 1) EXCEPT !.axes = axes], <<x>>, None)

InitRules ==
    /\ ConvOff
    /\ pin = <<>> /\ px = <<>> /\ py = <<>> /\ pres = <<>>
    /\ \/ InitIsAShapeOf
       \/ InitBroadcast
       \/ InitReduce
       \/ InitSplit
       \/ InitStack
       \/ InitMatMul
       \/ InitInnerProduct
       \/ InitExpandDims
       \/ InitSqueeze
    /\ rres = <<>>

\* what the caller of a rule sees: whether it returned, the exception if
\* not, and the returned output shapes
RuleResult(r) ==
    [ok |-> r.ok, err |-> r.err, out |-> [k \in DOMAIN r.out |-> r.heap[r.out[k]]],
     value |-> FALSE]

\* the rule of the call's layer kind applied to the call's input shapes
ApplyRule == RuleResult(Translate(rcall.layer, [k \in DOMAIN rcall.shapes |-> k],
                                  rcall.shapes))

CallIsAShapeOf ==
    /\ rcall # <<>> /\ rcall.fn = "is_a_shape_of" /\ rres = <<>>
    /\ rres' = <<[ok |-> TRUE, err |-> "", out |-> <<>>,
                  value |-> is_a_shape_of(rcall.shapes[1], rcall.ref)]>>
    /\ UNCHANGED <<pin, px, py, pres, rcall, convVars>>

CallAddBroadcastable ==
    /\ rcall # <<>> /\ rcall.fn = "add_broadcastable" /\ rres = <<>>
    /\ rres' = <<ApplyRule>>
    /\ UNCHANGED <<pin, px, py, pres, rcall, convVars>>

CallReduceGeneral ==
    /\ rcall # <<>> /\ rcall.fn = "reduce_general" /\ rres = <<>>
    /\ rres' = <<ApplyRule>>
    /\ UNCHANGED <<pin, px, py, pres, rcall, convVars>>

CallSplitND ==
    /\ rcall # <<>> /\ rcall.fn = "split_nd" /\ rres = <<>>
    /\ rres' = <<ApplyRule>>
    /\ UNCHANGED <<pin, px, py, pres, rcall, convVars>>

CallStackND ==
    /\ rcall # <<>> /\ rcall.fn = "stack_nd" /\ rres = <<>>
    /\ rres' = <<ApplyRule>>
    /\ UNCHANGED <<pin, px, py, pres, rcall, convVars>>

\* the parts that a split returned are stacked along a new axis 0
CallStackParts ==
    /\ rcall # <<>> /\ rcall.fn = "split_nd" /\ Len(rres) = 1 /\ rres[1].ok
    /\ rres' = Append(rres,
                      RuleResult(stack_nd(RuleLayer("stackND", Len(rres[1].out)),
                                          [k \in DOMAIN rres[1].out |-> k],
                                          rres[1].out)))
    /\ UNCHANGED <<pin, px, py, pres, rcall, convVars>>

CallBatchedMatMul ==
    /\ rcall # <<>> /\ rcall.fn = "batched_mat_mul" /\ rres = <<>>
    /\ rres' = <<ApplyRule>>
    /\ UNCHANGED <<pin, px, py, pres, rcall, convVars>>

CallInnerProduct ==
    /\ rcall # <<>> /\ rcall.fn = "inner_product" /\ rres = <<>>
    /\ rres' = <<ApplyRule>>
    /\ UNCHANGED <<pin, px, py, pres, rcall, convVars>>

CallExpandDims ==
    /\ rcall # <<>> /\ rcall.fn = "expand_dims" /\ rres = <<>>
    /\ rres' = <<ApplyRule>>
    /\ UNCHANGED <<pin, px, py, pres, rcall, convVars>>

CallSqueeze ==
    /\ rcall # <<>> /\ rcall.fn = "squeeze" /\ rres = <<>>
    /\ rres' = <<ApplyRule>>
    /\ UNCHANGED <<pin, px, py, pres, rcall, convVars>>

NextRules ==
    \/ CallIsAShapeOf
    \/ CallAddBroadcastable
    \/ CallReduceGeneral
    \/ CallSplitND
    \/ CallStackND
    \/ CallStackParts
    \/ CallBatchedMatMul
    \/ CallInnerProduct
    \/ CallExpandDims
    \/ CallSqueeze

SpecRules == InitRules /\ [][NextRules]_vars

----------------------------------------------------------------------------
(* Properties of the lowering of loops and of the tuple bindings *)

\* the positions of a lowered loop whose body output name differs from the
\* loop input name, in order
DifferingPositions(d) ==
    SelectSeq([i \in 1..Len(d.input_names) |-> i],
              LAMBDA i : d.loop_var_names[i] # d.input_names[i])

\* the layers that _convert_while appended to the body network after the
\* body function had been lowered
AppendedLayers(d) == SubSeq(nets[d.body], d.pre + 1, Len(nets[d.body]))

\* C1: for every loop that _convert_while lowered successfully, the body's
\* terminal tuple binding is as long as the loop's resolved input names, and
\* the layers appended to the body network are exactly one copy src_i -> dst_i
\* per position whose names differ, and none for a position whose names agree.
C1_LoopCopies ==
    \A i \in DOMAIN done_loops :
        LET d == done_loops[i]
        IN /\ Len(d.loop_var_names) = Len(d.input_names)
           /\ Len(AppendedLayers(d)) = Len(DifferingPositions(d))
           /\ \A k \in DOMAIN AppendedLayers(d) :
                  /\ AppendedLayers(d)[k].type = "copy"
                  /\ AppendedLayers(d)[k].input =
                         <<d.loop_var_names[DifferingPositions(d)[k]]>>
                  /\ AppendedLayers(d)[k].output =
                         <<d.input_names[DifferingPositions(d)[k]]>>

\* a loop was lowered that renames one carried value and passes another through
C1_Witness ==
    \E i \in DOMAIN done_loops :
        \E j, k \in DOMAIN done_loops[i].input_names :
            /\ done_loops[i].loop_var_names[j] # done_loops[i].input_names[j]
            /\ done_loops[i].loop_var_names[k] = done_loops[i].input_names[k]

\* C2: whenever _convert_while returns or raises, func_stack is the stack it
\* had when the call began (every push of a nested function is matched by
\* one pop, also when the nested lowering raises).
C2_StackRestored ==
    /\ \A i \in DOMAIN done_loops : done_loops[i].stack1 = done_loops[i].stack0
    /\ status = "error" =>
           \A i \in DOMAIN frames :
               frames[i].kind = "while" => func_stack = frames[i].stack0

\* the lowering routines that register a tuple binding under the node's name
BindingOps == {"make_tuple", "get_tuple", "Split", "Unpack", "while"}

\* the names under which the next step of the conversion registers a binding
Registering ==
    IF Dispatching /\ CurNode.op \in BindingOps
    THEN IF CurNode.op # "while" THEN {CurNode.name}
         ELSE IF /\ Len(CurNode.inputs) = 1
                 /\ CurNode.inputs[1] \in DOMAIN CurrentGraph
                 /\ CurrentGraph[CurNode.inputs[1]].op = "make_tuple"
              THEN {CurNode.name} \cup ({CurNode.cond_function} \ {""})
              ELSE {}
    ELSE IF Returning("cond") THEN {WhileNode.body_function} \ {""}
    ELSE {}

\* C3: registering a tuple binding under a name that already has one fails
\* at once and leaves the existing binding as it was, in every routine that
\* creates bindings.
C3_NoRebinding ==
    [][\A n \in Registering \cap DOMAIN op_tensor_map :
           /\ status' = "error"
           /\ op_tensor_map'[n] = op_tensor_map[n]]_vars

\* the tensor-edge names of the emitted layers, over all networks
EmittedEdges ==
    UNION {UNION {Range(nets[b][l].input) \cup Range(nets[b][l].output) :
                     l \in DOMAIN nets[b]} : b \in DOMAIN nets}

\* C4: no input or output edge name of an emitted layer, in any network, is
\* a name that has a tuple binding.
C4_NoTupleEdges == EmittedEdges \cap DOMAIN op_tensor_map = {}

\* what one input reference of a _get_input_tensors call stands for
Segment(c, k) ==
    IF c.inputs[k] \in DOMAIN c.map THEN c.map[c.inputs[k]] ELSE <<c.inputs[k]>>

RECURSIVE Offset(_, _)
Offset(c, k) == IF k = 1 THEN 0 ELSE Offset(c, k - 1) + Len(Segment(c, k - 1))

\* C5: _get_input_tensors returns, in input order, the whole list bound to
\* each input reference that names a tuple binding and the reference itself
\* otherwise; routines that only resolve leave the binding map as it is.
C5_ResolveSplices ==
    /\ [](/\ Len(last_call.result) = Offset(last_call, Len(last_call.inputs) + 1)
          /\ \A k \in DOMAIN last_call.inputs :
                 \A j \in DOMAIN Segment(last_call, k) :
                     last_call.result[Offset(last_call, k) + j]
                         = Segment(last_call, k)[j])
    /\ [][(ConvertIdentity \/ ConvertAdd \/ ConvertLess \/ ConvertReshape)
              => op_tensor_map' = op_tensor_map]_vars

\* a call resolved a reference to a two-element binding next to a plain name
C5_Witness ==
    \E k, m \in DOMAIN last_call.inputs :
        /\ last_call.inputs[k] \in DOMAIN last_call.map
        /\ Len(last_call.map[last_call.inputs[k]]) >= 2
        /\ last_call.inputs[m] \notin DOMAIN last_call.map
        /\ Len(last_call.result) >= 3

----------------------------------------------------------------------------
(* Properties of convert(): ordering, termination, unsupported kinds *)

\* the nodes of a function that have no consumer, or a consumer that carries
\* no constant value
Kept(f) ==
    {k \in DOMAIN f.graph :
        \/ f.graph[k].outputs = <<>>
        \/ \E o \in Range(f.graph[k].outputs) : ~f.graph[o].value}

\* the kept nodes reachable from the set S along input -> consumer edges
RECURSIVE Downstream(_, _)
Downstream(f, S) ==
    LET T == S \cup {m \in Kept(f) : Range(f.graph[m].inputs) \cap S # {}}
    IN IF T = S THEN S ELSE Downstream(f, T)

\* some kept node depends on itself through kept nodes
HasCycle(f) ==
    \E n \in Kept(f) :
        n \in Downstream(f, {m \in Kept(f) : n \in Range(f.graph[m].inputs)})

\* C6: convert never lowers a function whose restricted dependency subgraph
\* contains a cycle: no activation of convert gets an instruction order for
\* such a function, and a conversion whose top function is such does not
\* complete.
C6_CycleFails ==
    /\ \A i \in DOMAIN frames :
           (frames[i].kind = "convert" /\ frames[i].entered)
               => ~HasCycle(ensemble[frames[i].func])
    /\ status = "done" => ~HasCycle(ensemble[top_func])

\* convert was called on a function with a cyclic restricted subgraph and failed
C6_Witness ==
    /\ status = "error" /\ err = "ValueError: graph is not a DAG"
    /\ HasCycle(ensemble[Last(func_stack)])

\* C7: every conversion terminates, with a network or with an error,
\* whatever condition and body function names its loop nodes reference.
C7_Terminates == (status = "running") ~> (status \in {"done", "error"})

\* a conversion ended although a loop names a function that is already being
\* lowered as its condition or body
C7_Witness ==
    /\ status \in {"done", "error"}
    /\ \E i, j \in DOMAIN func_stack : i < j /\ func_stack[i] = func_stack[j]

\* the layers of all networks
EmittedLayers == UNION {Range(nets[b]) : b \in DOMAIN nets}

\* the first layer of a network whose kind has no shape rule (0: there is none)
FirstUnsupported(layers) ==
    IF \A i \in DOMAIN layers : layers[i].type \in LAYER_REGISTRY THEN 0
    ELSE CHOOSE i \in DOMAIN layers :
             /\ layers[i].type \notin LAYER_REGISTRY
             /\ \A j \in 1..(i - 1) : layers[j].type \in LAYER_REGISTRY

----------------------------------------------------------------------------
(* Properties of the Shape Table and of shape unification *)

\* dimension-wise unification of two shapes of equal rank
Unified(old, new) ==
    [i \in DOMAIN old |-> IF old[i] = new[i] THEN old[i] ELSE -1]

\* C9: whenever a shape is produced for an edge that already has a Shape
\* Table entry, the entry afterwards is the dimension-wise unification of the
\* old and the new shape when their ranks are equal, and otherwise the
\* operation fails with "unable to resolve shape"; either way the rank of the
\* entry stays what it was.
C9_WritesUnify ==
    \A i \in DOMAIN unify_log :
        LET e == unify_log[i]
        IN /\ Len(e.after) = Len(e.old)
           /\ IF Len(e.old) = Len(e.new)
              THEN ~e.none /\ e.after = Unified(e.old, e.new)
              ELSE /\ e.none
                   /\ status \in {"error", "shape_error"}
                   /\ err = "ValueError: unable to resolve shape"

\* C10: get_common_shape(x, y) and get_common_shape(y, x) return equal
\* results (both None, or equal shapes), for the same two values and when
\* called one after the other on the same two lists; get_common_shape(x, x)
\* returns a shape equal to x.
C10_CommutativeIdempotent ==
    /\ \A i \in DOMAIN pres :
           /\ get_common_shape(pres[i].y, pres[i].x).none = pres[i].none
           /\ get_common_shape(pres[i].y, pres[i].x).z = pres[i].z
           /\ pres[i].fn = "xx" => ~pres[i].none /\ pres[i].z = pres[i].x
    /\ \A i, j \in DOMAIN pres :
           (pres[i].fn = "xy" /\ pres[j].fn = "yx")
               => pres[i].none = pres[j].none /\ pres[i].z = pres[j].z

\* the two orders were called on shapes of equal rank that disagree in a
\* dimension
C10_Witness ==
    /\ Len(pres) >= 2
    /\ pres[1].fn = "xy" /\ pres[2].fn = "yx"
    /\ ~pres[1].none
    /\ \E d \in DOMAIN pin[1] : pin[1][d] # pin[2][d] /\ pres[2].z[d] = -1

----------------------------------------------------------------------------
(* Properties of is_a_shape_of and of the shape rules *)

\* the call that was made, when one was made of function fn
Called(fn) == rres # <<>> /\ rcall.fn = fn

\* C11: is_a_shape_of(x, y) is true when y is None, false when the ranks of
\* x and y differ, and for equal ranks true exactly when every dimension has
\* x[i] = y[i] or y[i] = -1; a -1 in x matches only a -1 in y.
C11_IsAShapeOf ==
    Called("is_a_shape_of") =>
        LET x == rcall.shapes[1]
            y == rcall.ref
            res == rres[1].value
        IN /\ y.none => res
           /\ (~y.none /\ Len(x) # Len(y.z)) => ~res
           /\ (~y.none /\ Len(x) = Len(y.z)) =>
                  (res <=> \A i \in DOMAIN x : x[i] = y.z[i] \/ y.z[i] = -1)
           /\ (~y.none /\ \E i \in DOMAIN x \cap DOMAIN y.z :
                              x[i] = -1 /\ y.z[i] # -1) => ~res

\* is_a_shape_of([-1, 2], [3, 2]) has returned False
C11_Witness ==
    /\ Called("is_a_shape_of")
    /\ rcall.shapes[1] = <<-1, 2>> /\ rcall.ref = Some(<<3, 2>>)
    /\ ~rres[1].value

\* the broadcast of an aligned dimension pair as the rule is stated; NoDim
\* where the pair is irreconcilable
PairDim(a, b) ==
    IF a = -1 \/ b = -1 THEN -1
    ELSE IF a = 1 THEN b
    ELSE IF b = 1 THEN a
    ELSE IF a = b THEN a
    ELSE NoDim

\* the two input shapes of the call, the shorter one left-padded with 1
Aligned(k) ==
    LET r == IF Len(rcall.shapes[1]) > Len(rcall.shapes[2])
             THEN Len(rcall.shapes[1]) ELSE Len(rcall.shapes[2])
    IN [i \in 1..(r - Len(rcall.shapes[k])) |-> 1] \o rcall.shapes[k]

\* C12: the broadcastable add/subtract/multiply rule on two input shapes
\* left-pads the shorter shape with 1 and yields, per aligned pair, -1 if
\* either is -1, the other value if one is 1, the shared value if they are
\* equal, and fails otherwise; [1,4] with [3,1] gives [3,4], [2] with [3]
\* fails, [-1] with [-1] gives [-1].
C12_Broadcast ==
    Called("add_broadcastable") =>
        LET expect == [i \in DOMAIN Aligned(1) |-> PairDim(Aligned(1)[i], Aligned(2)[i])]
        IN /\ rres[1].ok <=> (\A i \in DOMAIN expect : expect[i] # NoDim)
           /\ rres[1].ok => rres[1].out = <<expect>>
           /\ rcall.shapes = << <<1, 4>>, <<3, 1>> >> => rres[1].out = << <<3, 4>> >>
           /\ rcall.shapes = << <<2>>, <<3>> >> => ~rres[1].ok
           /\ rcall.shapes = << <<-1>>, <<-1>> >> => rres[1].out = << <<-1>> >>

\* shapes of different rank were broadcast: [4] with [3, 1] has given [3, 4]
C12_Witness ==
    /\ Called("add_broadcastable")
    /\ rcall.shapes = << <<4>>, <<3, 1>> >>
    /\ rres[1].ok /\ rres[1].out = << <<3, 4>> >>

\* C13: broadcasting a wildcard dimension against a concrete value at the
\* aligned position yields the concrete value; [-1, 4] with [3, 4] gives
\* [3, 4].
C13_WildcardResolved ==
    (Called("add_broadcastable") /\ rres[1].ok) =>
        /\ \A i \in DOMAIN Aligned(1) :
               /\ (Aligned(1)[i] = -1 /\ Aligned(2)[i] # -1)
                      => rres[1].out[1][i] = Aligned(2)[i]
               /\ (Aligned(2)[i] = -1 /\ Aligned(1)[i] # -1)
                      => rres[1].out[1][i] = Aligned(1)[i]
        /\ rcall.shapes = << <<-1, 4>>, <<3, 4>> >> => rres[1].out = << <<3, 4>> >>

\* the broadcast of two shapes under the elementwise broadcast rule
BroadcastOf(x, y) ==
    LET r == IF Len(x) > Len(y) THEN Len(x) ELSE Len(y)
    IN [i \in 1..r |-> PairDim(LeftPad(x, r)[i], LeftPad(y, r)[i])]

\* C14: for an emitted max or min layer with two inputs, the shape recorded
\* for its output edge is the broadcast of the two input shapes, and input
\* shapes that cannot be broadcast make the conversion fail.
C14_MaxMinBroadcast ==
    status \in {"running", "done", "error"} =>
        \A l \in EmittedLayers :
            (/\ l.type \in {"max", "min"}
             /\ Len(l.input) = 2
             /\ Range(l.input) \subseteq DOMAIN tensor_shapes) =>
                LET expect == BroadcastOf(heap[tensor_shapes[l.input[1]]],
                                          heap[tensor_shapes[l.input[2]]])
                IN IF \E i \in DOMAIN expect : expect[i] = NoDim
                   THEN status = "error"
                   ELSE /\ l.output[1] \in DOMAIN tensor_shapes
                        /\ heap[tensor_shapes[l.output[1]]] = expect

\* the positions (1-based) that the axes of a reduction name in a shape of
\* rank n
ReducedPositions(axes, n) ==
    {IF axes[k] < 0 THEN n + axes[k] + 1 ELSE axes[k] + 1 : k \in DOMAIN axes}

\* the elements of s at the positions outside R, in order
Without(s, R) ==
    LET keep == SelectSeq([i \in DOMAIN s |-> i], LAMBDA i : i \notin R)
    IN [k \in DOMAIN keep |-> s[keep[k]]]

\* C15: reduce-sum and reduce-mean over a list of axes of the input give the
\* input shape with each reduced axis set to 1 when keepDims is set, and with
\* exactly the reduced axes removed, the rest in order, when it is not; with
\* reduceAll the output is [1] whatever the input shape.
C15_Reduce ==
    Called("reduce_general") =>
        LET x == rcall.shapes[1]
            R == ReducedPositions(rcall.layer.axes, Len(x))
        IN /\ rcall.layer.reduceAll => rres[1].ok /\ rres[1].out = << <<1>> >>
           /\ (~rcall.layer.reduceAll /\ R \subseteq DOMAIN x) =>
                  /\ rres[1].ok
                  /\ rcall.layer.keepDims =>
                         rres[1].out = <<[i \in DOMAIN x |-> IF i \in R THEN 1 ELSE x[i]]>>
                  /\ ~rcall.layer.keepDims => rres[1].out = <<Without(x, R)>>

\* the first axis of [2, 3] was reduced away
C15_Witness ==
    /\ Called("reduce_general")
    /\ ~rcall.layer.reduceAll /\ ~rcall.layer.keepDims
    /\ rcall.shapes = << <<2, 3>> >> /\ rcall.layer.axes = <<0>>
    /\ rres[1].out = << <<3>> >>

\* C16: shape inference for an N-way split fails whenever the (known)
\* dimension of the split axis is not a multiple of N; the parts it returns
\* have the dimension divided by N, never a fractional, rounded or zero one.
C16_UnevenSplitFails ==
    (/\ Called("split_nd")
     /\ Len(rcall.shapes) = 1
     /\ rcall.layer.axis + 1 \in DOMAIN rcall.shapes[1]
     /\ rcall.shapes[1][rcall.layer.axis + 1] > 0) =>
        LET ax == rcall.layer.axis + 1
            d == rcall.shapes[1][ax]
            n == rcall.layer.num
        IN /\ d % n # 0 => ~rres[1].ok
           /\ (d % n = 0 /\ rres[1].ok) =>
                  \A k \in DOMAIN rres[1].out :
                      rres[1].out[k][ax] > 0 /\ rres[1].out[k][ax] * n = d

\* C17: splitting a shape whose axis-0 dimension d is a positive multiple of
\* n into n parts along axis 0 gives n equal shapes with axis-0 dimension
\* d/n; stacking n equal shapes s along a new axis 0 gives [n] followed by s,
\* and stacking unequal shapes fails; [6,4] split 3 ways gives three [2,4],
\* which stacked give [3,2,4].
C17_SplitStack ==
    /\ (/\ Called("split_nd")
        /\ Len(rcall.shapes) = 1
        /\ rcall.layer.axis = 0
        /\ rcall.shapes[1][1] > 0
        /\ rcall.shapes[1][1] % rcall.layer.num = 0) =>
           LET part == [rcall.shapes[1] EXCEPT ![1] = @ \div rcall.layer.num]
           IN /\ rres[1].ok
              /\ rres[1].out = [k \in 1..rcall.layer.num |-> part]
              /\ Len(rres) = 2 =>
                     rres[2].ok /\ rres[2].out = <<(<<rcall.layer.num>> \o part)>>
              /\ (rcall.shapes[1] = <<6, 4>> /\ rcall.layer.num = 3) =>
                     /\ rres[1].out = << <<2, 4>>, <<2, 4>>, <<2, 4>> >>
                     /\ Len(rres) = 2 => rres[2].out = << <<3, 2, 4>> >>
    /\ (Called("stack_nd") /\ rcall.layer.axis = 0) =>
           IF \A k \in DOMAIN rcall.shapes : rcall.shapes[k] = rcall.shapes[1]
           THEN /\ rres[1].ok
                /\ rres[1].out = <<(<<Len(rcall.shapes)>> \o rcall.shapes[1])>>
           ELSE ~rres[1].ok

\* [6, 4] was split 3 ways and the parts were stacked again
C17_Witness ==
    /\ rcall # <<>> /\ rcall.fn = "split_nd"
    /\ rcall.shapes = << <<6, 4>> >> /\ rcall.layer.num = 3 /\ rcall.layer.axis = 0
    /\ Len(rres) = 2
    /\ rres[2].out = << <<3, 2, 4>> >>

\* the leading (batch) dimensions of a matmul operand of rank at least 2
BatchDims(x) == SubSeq(x, 1, Len(x) - 2)

\* C18: two-input batched matmul rejects operands of rank below 2, accepts
\* operands whose batch dimensions agree position by position, a -1 on
\* either side agreeing with any value, rejects operands whose batch
\* dimensions differ in static values, and on acceptance returns the batch
\* dimensions followed by [rows, cols] taken from the trailing two dimensions
\* by the transpose flags.
C18_BatchedMatMul ==
    (Called("batched_mat_mul") /\ Len(rcall.shapes) = 2) =>
        LET x == rcall.shapes[1]
            y == rcall.shapes[2]
            rows == IF rcall.layer.transposeA THEN x[Len(x)] ELSE x[Len(x) - 1]
            cols == IF rcall.layer.transposeB THEN y[Len(y) - 1] ELSE y[Len(y)]
        IN /\ (Len(x) < 2 \/ Len(y) < 2) => ~rres[1].ok
           /\ (Len(x) >= 2 /\ Len(y) >= 2 /\ Len(x) = Len(y)) =>
                  /\ rres[1].ok <=>
                         \A i \in DOMAIN BatchDims(x) :
                             x[i] = y[i] \/ x[i] = -1 \/ y[i] = -1
                  /\ rres[1].ok =>
                         /\ Len(rres[1].out) = 1
                         /\ Len(rres[1].out[1]) = Len(x)
                         /\ SubSeq(rres[1].out[1], Len(x) - 1, Len(x)) = <<rows, cols>>
                         /\ BatchDims(x) = BatchDims(y)
                                => BatchDims(rres[1].out[1]) = BatchDims(x)

\* C19: inner-product inference, with the weights in the layer (one input)
\* and with a weight matrix as second input, fails when the input's last
\* dimension is static and differs from the weight's input-channel
\* dimension, and otherwise (equal, or last dimension -1) returns the input
\* shape with its last dimension replaced by the output-channel count.
C19_InnerProduct ==
    Called("inner_product") =>
        LET x == rcall.shapes[1]
            static == Len(rcall.shapes) = 1
            in_channels == IF static THEN rcall.layer.inputChannels
                           ELSE rcall.shapes[2][Len(rcall.shapes[2]) - 1]
            out_channels == IF static THEN rcall.layer.outputChannels
                            ELSE rcall.shapes[2][Len(rcall.shapes[2])]
        IN IF x[Len(x)] # -1 /\ x[Len(x)] # in_channels
           THEN ~rres[1].ok
           ELSE /\ rres[1].ok
                /\ rres[1].out = <<SubSeq(x, 1, Len(x) - 1) \o <<out_channels>> >>

----------------------------------------------------------------------------
(* Properties of finalization *)

\* the Shape Table shape of an edge
ShapeOf(name) == heap[tensor_shapes[name]]

\* an annotation and a shape are compatible in both directions
TwoWay(existing, shape) ==
    /\ Len(existing) = Len(shape)
    /\ \A d \in DOMAIN existing :
           /\ existing[d] = shape[d] \/ shape[d] = -1
           /\ shape[d] = existing[d] \/ existing[d] = -1

\* C20: when propagate_shapes returns in merge mode (overwrite false), every
\* annotation that a layer carried when it was called is compatible with the
\* Shape Table shape of its edge in both directions (a mismatch in one
\* direction would have made it fail); when it returns in overwrite mode,
\* every annotation of every layer, and the shape of every output, is the
\* Shape Table shape of its edge.
C20_MergeTwoWay ==
    status = "shaped" =>
        /\ ~shaper_in.overwrite =>
               \A i \in DOMAIN shaper_in.layers :
                   LET l == shaper_in.layers[i]
                   IN /\ \A j \in DOMAIN l.inputTensor \cap DOMAIN l.input :
                             TwoWay(l.inputTensor[j], ShapeOf(l.input[j]))
                      /\ \A j \in DOMAIN l.outputTensor \cap DOMAIN l.output :
                             TwoWay(l.outputTensor[j], ShapeOf(l.output[j]))
        /\ shaper_in.overwrite =>
               /\ \A i \in DOMAIN nets[1] :
                      LET l == nets[1][i]
                      IN /\ l.inputTensor = [j \in DOMAIN l.input |-> ShapeOf(l.input[j])]
                         /\ l.outputTensor = [j \in DOMAIN l.output |-> ShapeOf(l.output[j])]
               /\ \A k \in DOMAIN description_output :
                      description_output[k].shape = ShapeOf(description_output[k].name)

\* the layers of a network that hold no nested network
Flat(layers) == SelectSeq(layers, LAMBDA l : l.type \notin {"loop", "branch"})

\* propagate_shapes on the model as it was passed in, its loop and branch
\* layers left out, would return normally
FlatPasses ==
    LET reg == RegisterInputs(shaper_in.input)
        st == propagate_layers(Flat(shaper_in.layers), 1,
                  [ok |-> TRUE, err |-> "", ts |-> reg.ts, heap |-> reg.heap,
                   log |-> <<>>, blob_names |-> reg.blob_names])
    IN /\ st.ok
       /\ finalize_spec(Flat(shaper_in.layers), 1, st.ts, st.heap,
                        shaper_in.overwrite).err = ""
       /\ finalize_outputs(shaper_in.output, st.ts, st.heap,
                           shaper_in.overwrite).err = ""

\* the nested networks of the loop and branch layers of a network
NestedNets(layers) ==
    UNION {IF layers[i].type = "loop"
           THEN {layers[i].conditionNetwork, layers[i].bodyNetwork}
           ELSE IF layers[i].type = "branch"
           THEN {layers[i].ifBranch, layers[i].elseBranch}
           ELSE {} : i \in DOMAIN layers}

\* C21: propagate_shapes on a network that contains a loop or branch layer,
\* all of whose other and nested layers have a supported kind and shapes
\* that can be reconciled, returns without error, and every layer of the
\* nested condition, body and branch-arm networks then carries one shape
\* annotation per input and per output edge, its shape recorded.
C21_NestedPropagated ==
    (/\ status \in {"shaped", "shape_error"}
     /\ NestedNets(shaper_in.layers) # {}
     /\ FlatPasses) =>
        /\ status = "shaped"
        /\ \A b \in NestedNets(shaper_in.layers) :
               \A i \in DOMAIN nets[b] :
                   /\ Range(nets[b][i].output) \subseteq DOMAIN tensor_shapes
                   /\ Len(nets[b][i].inputTensor) = Len(nets[b][i].input)
                   /\ Len(nets[b][i].outputTensor) = Len(nets[b][i].output)

----------------------------------------------------------------------------
(* Properties of the construction of the converter *)

\* C22: built without explicit inputs, the construction fails if a top-level
\* input has no shape or a shape with a non-positive dimension; otherwise
\* the initial Shape Table maps every top-level input name to its declared
\* shape and holds no other edge.
C22_ConstructStatic ==
    [][(status = "constructing" /\ top_func \in DOMAIN ensemble) =>
          LET g == ensemble[top_func].graph
              names == TopInputs(ensemble)
          IN IF \E i \in DOMAIN names :
                    \/ ~g[names[i]].has_get_shape
                    \/ \E d \in DOMAIN g[names[i]].shape : g[names[i]].shape[d] <= 0
             THEN status' = "init_error"
             ELSE /\ status' = "running"
                  /\ DOMAIN tensor_shapes' = Range(names)
                  /\ \A n \in Range(names) :
                         heap'[tensor_shapes'[n]] = g[n].shape]_vars

\* the construction failed on a second input with a dimension of 0, after a
\* first input of static shape
C22_Witness ==
    /\ status = "init_error"
    /\ top_func \in DOMAIN ensemble
    /\ is_static_shape(ensemble[top_func].graph["a"].shape)
    /\ ensemble[top_func].graph["a"].has_get_shape
    /\ \E d \in DOMAIN ensemble[top_func].graph["b"].shape :
           ensemble[top_func].graph["b"].shape[d] = 0

----------------------------------------------------------------------------
(* Properties of the dispatch order and of the emitted annotations *)

\* C23: for each function it lowers, convert dispatches exactly the nodes
\* that are not excluded (excluded: at least one consumer, and every consumer
\* carries a constant value), each once and only after every non-excluded
\* node it takes input from; and no dispatched node aborts for a missing
\* input shape because the node that produces this input was excluded.
C23_RestrictedDispatch ==
    /\ \A i \in DOMAIN frames :
           (frames[i].kind = "convert" /\ frames[i].entered) =>
               LET f == ensemble[frames[i].func]
                   o == frames[i].order
               IN /\ Range(o) = Kept(f)
                  /\ \A j, k \in DOMAIN o : j # k => o[j] # o[k]
                  /\ \A k \in DOMAIN o :
                         \A m \in Range(f.graph[o[k]].inputs) \cap Kept(f) :
                             \E j \in 1..(k - 1) : o[j] = m
    /\ (/\ status = "error"
        /\ err = "ValueError: shape of input cannot be determined"
        /\ frames # <<>>
        /\ Top.kind = "convert" /\ Top.entered /\ Top.idx <= Len(Top.order)) =>
           \A n \in Range(get_input_tensors(CurNode.inputs, op_tensor_map)) :
               (n \in DOMAIN ensemble[Top.func].graph /\ n \notin DOMAIN tensor_shapes)
                   => n \in Kept(ensemble[Top.func])

\* the lowering routines that emit one layer under the name of their node
LayerOps == {"Const", "Identity", "Add", "Less", "Maximum", "Minimum", "Reshape"}

\* the activations of _convert_while that are in the given phase
WhileFrames(phase) ==
    {i \in DOMAIN frames : frames[i].kind = "while" /\ frames[i].phase = phase}

\* the while node that the i-th activation lowers, and its loop layer
WhileNodeOf(i) == ensemble[frames[i - 1].func].graph[frames[i].node]

LoopLayerOf(i) == nets[frames[i].net][frames[i].lidx]

\* C24: when a while node is lowered, every operator of the condition
\* function is in the condition network before an operator of the body
\* function is emitted into the body network, and the while node, the entry
\* of the condition function and the entry of the body function are bound to
\* one and the same list of names, in order: the resolved inputs of the
\* while node.
C24_CondBeforeBody ==
    /\ [](/\ \A i \in WhileFrames("cond") :
                /\ op_tensor_map[WhileNodeOf(i).name] = frames[i].input_names
                /\ op_tensor_map[WhileNodeOf(i).cond_function] = frames[i].input_names
                /\ frames[i].input_names =
                       get_input_tensors(WhileNodeOf(i).inputs, op_tensor_map)
                /\ LoopLayerOf(i).bodyNetwork = 0
          /\ \A i \in WhileFrames("body") :
                /\ op_tensor_map[WhileNodeOf(i).name] = frames[i].input_names
                /\ op_tensor_map[WhileNodeOf(i).cond_function] = frames[i].input_names
                /\ op_tensor_map[WhileNodeOf(i).body_function] = frames[i].input_names
                /\ frames[i].input_names =
                       get_input_tensors(WhileNodeOf(i).inputs, op_tensor_map)
                /\ LET cond_func == ensemble[WhileNodeOf(i).cond_function]
                   IN \A n \in Kept(cond_func) :
                          cond_func.graph[n].op \in LayerOps =>
                              \E k \in DOMAIN nets[LoopLayerOf(i).conditionNetwork] :
                                  nets[LoopLayerOf(i).conditionNetwork][k].name = n)
    /\ [][\A i \in WhileFrames("body") :
              nets'[LoopLayerOf(i).conditionNetwork]
                  = nets[LoopLayerOf(i).conditionNetwork]]_vars

\* a loop was lowered whose condition network and body network both hold layers
C24_Witness ==
    /\ status = "done"
    /\ done_loops # <<>>
    /\ \E k \in DOMAIN nets[1] :
           /\ nets[1][k].type = "loop"
           /\ nets[1][k].conditionNetwork # 0 /\ nets[1][k].bodyNetwork # 0
           /\ nets[nets[1][k].conditionNetwork] # <<>>
           /\ nets[nets[1][k].bodyNetwork] # <<>>

\* the while nodes of the ensemble that lack a condition-function or a
\* body-function reference
Unreferenced ==
    UNION {{ensemble[f].graph[n] : n \in {m \in DOMAIN ensemble[f].graph :
                                             /\ ensemble[f].graph[m].op = "while"
                                             /\ \/ ensemble[f].graph[m].cond_function = ""
                                                \/ ensemble[f].graph[m].body_function = ""}}
           : f \in DOMAIN ensemble}

\* C25: lowering a while node that lacks a condition-function reference, or
\* lacks a body-function reference, fails with an error, and no body network
\* is lowered for that node.
C25_MissingReferenceFails ==
    /\ [](status \in {"running", "done", "error"} =>
             /\ \A i \in DOMAIN done_loops :
                    \A node \in Unreferenced : node.name # done_loops[i].node
             /\ \A b \in DOMAIN nets : \A k \in DOMAIN nets[b] :
                    (nets[b][k].type = "loop"
                        /\ \E node \in Unreferenced : node.name = nets[b][k].name)
                        => nets[b][k].bodyNetwork = 0
             /\ \A i \in DOMAIN frames :
                    (frames[i].kind = "while" /\ WhileNodeOf(i) \in Unreferenced)
                        => frames[i].phase # "body"
             /\ status = "done" =>
                    \A node \in Unreferenced : node.name \notin Kept(ensemble[top_func]))
    /\ [][/\ (Dispatching /\ CurNode.op = "while" /\ CurNode.cond_function = "")
                 => status' = "error"
          /\ (Returning("cond") /\ WhileNode.body_function = "")
                 => status' = "error" /\ Len(nets') = Len(nets)]_vars

\* a while node without a body-function reference failed after its
\* condition function had been lowered
C25_Witness ==
    /\ status = "error"
    /\ err = "ValueError: a while node should not be empty"
    /\ \E k \in DOMAIN nets[1] :
           /\ nets[1][k].type = "loop"
           /\ nets[1][k].conditionNetwork # 0
           /\ nets[nets[1][k].conditionNetwork] # <<>>
           /\ nets[1][k].bodyNetwork = 0

\* the loop layers that stand for a while node whose lowering has returned
LoweredLoops ==
    UNION {{nets[b][k] : k \in {j \in DOMAIN nets[b] :
                                   /\ nets[b][j].type = "loop"
                                   /\ \E i \in DOMAIN done_loops :
                                          done_loops[i].node = nets[b][j].name}}
           : b \in DOMAIN nets}

\* C26: after a while node is lowered, the condition variable of its loop
\* layer is the output edge of a layer of that loop's condition network; it
\* is not a name with a tuple binding.
C26_ConditionVarIsEdge ==
    status \in {"running", "done", "error"} =>
        \A l \in LoweredLoops :
            /\ \E k \in DOMAIN nets[l.conditionNetwork] :
                   l.conditionVar \in Range(nets[l.conditionNetwork][k].output)
            /\ l.conditionVar \notin DOMAIN op_tensor_map

----------------------------------------------------------------------------
(* Properties of the expandDims and squeeze rules *)

\* the shape s with a 1 put in front of its (0-based) position p
InsertedAt(s, p) == SubSeq(s, 1, p) \o <<1>> \o SubSeq(s, p + 1, Len(s))

\* C27: expandDims with a single axis a, 0 <= a <= rank, gives the input
\* shape with a 1 inserted at position a (axis 0 on [2, 3] gives [1, 2, 3]);
\* with a negative axis a the 1 is inserted at position a + rank + 1; the
\* output rank is the input rank plus the number of axes.
C27_ExpandDims ==
    Called("expand_dims") =>
        LET x == rcall.shapes[1]
            axes == rcall.layer.axes
            rank == Len(x)
        IN /\ rres[1].ok
           /\ Len(rres[1].out) = 1
           /\ Len(rres[1].out[1]) = rank + Len(axes)
           /\ (Len(axes) = 1 /\ 0 <= axes[1] /\ axes[1] <= rank)
                  => rres[1].out[1] = InsertedAt(x, axes[1])
           /\ (Len(axes) = 1 /\ axes[1] < 0 /\ axes[1] + rank + 1 >= 0)
                  => rres[1].out[1] = InsertedAt(x, axes[1] + rank + 1)
           /\ (x = <<2, 3>> /\ axes = <<0>>) => rres[1].out[1] = <<1, 2, 3>>

\* C28: squeeze over a list of distinct axes, each of size 1 in the input,
\* gives the input shape with exactly those positions removed, the other
\* dimensions in their order ([1, 1, 5] with axes [0, 1] gives [5]);
\* squeezing an axis whose input size is not 1 fails.
C28_Squeeze ==
    (/\ Called("squeeze")
     /\ rcall.layer.axes # <<>>
     /\ ReducedPositions(rcall.layer.axes, Len(rcall.shapes[1]))
            \subseteq DOMAIN rcall.shapes[1]) =>
        LET x == rcall.shapes[1]
            R == ReducedPositions(rcall.layer.axes, Len(x))
        IN /\ (\E p \in R : x[p] # 1) => ~rres[1].ok
           /\ (Cardinality(R) = Len(rcall.layer.axes) /\ \A p \in R : x[p] = 1)
                  => rres[1].ok /\ rres[1].out = <<Without(x, R)>>
           /\ (x = <<1, 1, 5>> /\ rcall.layer.axes = <<0, 1>>)
                  => rres[1].out = << <<5>> >>

----------------------------------------------------------------------------
(* Properties of the effect of one propagation on the Shape Table *)

\* the edges whose recorded shape a step changes
ChangedEdges ==
    {n \in DOMAIN tensor_shapes \cap DOMAIN tensor_shapes' :
        heap'[tensor_shapes'[n]] # heap[tensor_shapes[n]]}

\* the output edges of the operators a step appends to the networks
AppendedOutputs ==
    UNION {UNION {Range(nets'[b][i].output) :
                    i \in {j \in DOMAIN nets'[b] :
                              b \in DOMAIN nets => j > Len(nets[b])}} :
             b \in DOMAIN nets'}

\* C29: propagating shapes for an emitted operator changes the Shape Table
\* entries of that operator's own output edges only; the recorded shape of
\* every other edge (its inputs, the outputs of other operators) stays what
\* it was, also when an output shape came from an identity, copy,
\* single-input elementwise or split rule and the edge is unified later.
C29_OnlyOwnOutputs ==
    [][status = "running" => ChangedEdges \subseteq AppendedOutputs]_vars

\* the emitted operators that have inputs or outputs
EdgeLayers == {l \in EmittedLayers : l.input # <<>> \/ l.output # <<>>}

\* C30: when a conversion completes successfully, every emitted operator
\* that has inputs or outputs carries one shape annotation per input and
\* per output edge, each equal to the final Shape Table entry of the edge,
\* loop-carried edges that a body copy operator unified after their readers
\* were emitted included.
C30_AnnotationsFinal ==
    status = "done" =>
        \A l \in EdgeLayers :
            /\ Range(l.input) \cup Range(l.output) \subseteq DOMAIN tensor_shapes
            /\ l = Annotate(l, tensor_shapes, heap)

====
